---- MODULE Spec2Model ----
(***************************************************************************)
(* Gymlogs-BE: the routers, the Joi validation and the handlers of the     *)
(* workout-plan, user, gym-log and exercise controllers over the tables    *)
(* users, gym_logs, exercises, workout_plans and workout_plan_exercises.   *)
(* Every `await supabase...` of a handler is one step: it reads or writes  *)
(* the tables atomically and may answer with an error.  Requests run in    *)
(* slots; the slots that accept requests are fixed by the initial state    *)
(* (one slot: requests one after the other, all slots: concurrent          *)
(* requests).  Spec is the workout-plan router, AccountSpec the user and   *)
(* gym-log routers next to the plan writers, CatalogSpec the exercise      *)
(* router, PagingSpec the pagination of the list endpoints.  Two slots     *)
(* serve updateWorkoutPlan in ConcurrentUpdateSpec, the writers of items   *)
(* in ConcurrentItemsSpec, addExerciseToWorkoutPlan in ConcurrentAddSpec,  *)
(* and the statistics beside create, update and delete in                  *)
(* ConcurrentStatsSpec.                                                    *)
(***************************************************************************)
EXTENDS Integers, Sequences, FiniteSets, TLC

\* ---------------------------------------------------------------- bounds
\* longest exercises list of a request body
MaxLen == 2
\* number of workout_plans ids (gen_random_uuid) the store hands out
MaxPlanId == 2
\* number of ids of workout_plan_exercises rows
MaxItemId == 2
\* number of requests the clients send
MaxRequests == 3
\* largest page and largest limit of a list request, largest row count
MaxPage == 3
MaxLimit == 3
MaxTotal == 7

\* ------------------------------------------------------------ JS values
\* undefined (a field the JSON body does not carry) and null, for numbers
Undef == -2
Null == -1
\* undefined and null, for strings
SUndef == "<undefined>"
SNull == "<null>"

\* accounts (users.id) and the request without a valid token
Users == {"u1", "u2"}
Anon == "anon"
Actors == Users \cup {Anon}

\* rows of the exercises table (no endpoint deletes one)
exercises == {[id |-> "e1", name |-> "Bench Press"], [id |-> "e2", name |-> "Squat"]}
ExerciseIds == {e.id : e \in exercises}
ExerciseName(eid) == (CHOOSE e \in exercises : e.id = eid).name

\* JS truthiness of a number / of a string or absent string
FalsyNum(v) == v \in {0, Null, Undef}
FalsyStr(s) == s \in {"", SNull, SUndef}
\* the value itself, null only for an absent one (`x ?? null`)
OrNullNumKeepZero(v) == IF v \in {Null, Undef} THEN Null ELSE v
OrNullStrKeepEmpty(s) == IF s \in {SNull, SUndef} THEN SNull ELSE s
\* `x || null`
OrNullNum(v) == IF FalsyNum(v) THEN Null ELSE v
OrNullStr(s) == IF FalsyStr(s) THEN SNull ELSE s
\* `exercise.order_index || (index + 1)`, index 0-based: position is index + 1
OrderIndexOr(oi, position) == IF FalsyNum(oi) THEN position ELSE oi

\* ------------------------------------------------------- request bodies
\* one entry of body.exercises (also the body of the item endpoints)
ItemSpec(e, s, rp, w, rt, n, oi) ==
  [exercise_id |-> e, sets |-> s, reps |-> rp, weight |-> w, rest_time |-> rt,
   notes |-> n, order_index |-> oi]

\* the entries the requests draw from: between them a number and a string
\* that are given, left out, and given as 0 or "", without and with an
\* order_index
ItemSpecs ==
  { ItemSpec("e1", 3, 8, 50, Undef, "slow", Undef),
    ItemSpec("e2", 4, 10, 0, 0, "", 3) }

NoItem == ItemSpec("e1", 0, 0, Undef, Undef, SUndef, Undef)

SeqsUpTo(S, n) == UNION {[1..k -> S] : k \in 0..n}
ExerciseLists == SeqsUpTo(ItemSpecs, MaxLen)

\* a plan body: `has` holds the names of the fields the JSON carries
Body(has, name, pub, exs) ==
  [has |-> has, name |-> name, is_public |-> pub, exercises |-> exs]
NoBody == Body({}, SUndef, FALSE, <<>>)

\* workoutPlanExerciseSchema
ValidItemSpec(x) ==
  /\ x.exercise_id # SUndef
  /\ x.sets >= 1 /\ x.sets <= 50
  /\ x.reps >= 1 /\ x.reps <= 1000
  /\ (x.weight = Undef \/ (x.weight >= 0 /\ x.weight <= 10000))
  /\ (x.rest_time = Undef \/ (x.rest_time >= 0 /\ x.rest_time <= 3600))
  /\ x.notes # SNull
  /\ (x.order_index = Undef \/ x.order_index >= 1)

\* Joi.array().items(workoutPlanExerciseSchema).min(1)
ValidExercisesMinZero(exs) == \A i \in 1..Len(exs) : ValidItemSpec(exs[i])
ValidExercises(exs) == Len(exs) >= 1 /\ \A i \in 1..Len(exs) : ValidItemSpec(exs[i])

\* workoutPlanSchema: name and exercises required
workoutPlanSchema(b) ==
  /\ "name" \in b.has /\ b.name # ""
  /\ "exercises" \in b.has /\ ValidExercises(b.exercises)

\* workoutPlanUpdateSchema: every key optional, at least one key
workoutPlanUpdateSchema(b) ==
  /\ b.has # {}
  /\ ("name" \in b.has => b.name # "")
  /\ ("exercises" \in b.has => ValidExercises(b.exercises))

\* ------------------------------------------------------------ the store
PlanRow(id, name, owner, pub) ==
  [id |-> id, name |-> name, created_by |-> owner, is_public |-> pub]

\* the row the three inserts into workout_plan_exercises build from an entry
ItemRow(id, pid, x, oi) ==
  [id |-> id, workout_plan_id |-> pid, exercise_id |-> x.exercise_id,
   sets |-> x.sets, reps |-> x.reps,
   weight |-> OrNullNum(x.weight), rest_time |-> OrNullNum(x.rest_time),
   notes |-> OrNullStr(x.notes), order_index |-> oi]

\* constraints of workout_plan_exercises: both foreign keys, the two CHECKs
\* and UNIQUE(workout_plan_id, exercise_id)
InsertAllowedNoUnique(plans, items, row) ==
  /\ \E p \in plans : p.id = row.workout_plan_id
  /\ row.exercise_id \in ExerciseIds
  /\ row.sets > 0 /\ row.reps > 0
InsertAllowed(plans, items, row) ==
  /\ \E p \in plans : p.id = row.workout_plan_id
  /\ row.exercise_id \in ExerciseIds
  /\ row.sets > 0 /\ row.reps > 0
  /\ ~ \E i \in items :
        i.workout_plan_id = row.workout_plan_id /\ i.exercise_id = row.exercise_id

\* delete from workout_plans where id = pid; ON DELETE CASCADE on the items
ItemsAfterPlanDeleteNoCascade(items, pid) == items
ItemsAfterPlanDelete(items, pid) == {i \in items : i.workout_plan_id # pid}

\* what getWorkoutPlanWithExercises returns for one item row
FormatItem(i) ==
  [id |-> i.id, exercise_id |-> i.exercise_id,
   exercise_name |-> ExerciseName(i.exercise_id),
   sets |-> i.sets, reps |-> i.reps, weight |-> i.weight,
   rest_time |-> i.rest_time, notes |-> i.notes, order_index |-> i.order_index]

\* ---------------------------------------------------------------- state
VARIABLES
  workout_plans,           \* rows of the table workout_plans
  workout_plan_exercises,  \* rows of the table workout_plan_exercises
  nextPlanId,              \* next id of workout_plans
  slots,                   \* the request slots that accept requests
  started,                 \* number of requests received so far
  req,                     \* per slot: the request in it and its handler's locals
  users,                   \* rows of the table users
  gym_logs,                \* rows of the table gym_logs
  exercise_rows            \* rows of the table exercises

vars == <<workout_plans, workout_plan_exercises, nextPlanId, slots, started, req,
          users, gym_logs, exercise_rows>>
store == <<workout_plans, workout_plan_exercises, nextPlanId>>
\* the tables the workout-plan handlers do not write
otherTables == <<users, gym_logs, exercise_rows>>

\* rows of users: the accounts of Users, registered with these emails
UserRow(id, email) == [id |-> id, email |-> email]
EmailOf(u) == IF u = "u1" THEN "a@gym.io" ELSE IF u = "u2" THEN "b@gym.io" ELSE "c@gym.io"
RegisteredUsers == {UserRow(u, EmailOf(u)) : u \in Users}
UserIdsOf(accounts) == {a.id : a \in accounts}

\* id UUID DEFAULT gen_random_uuid() of workout_plan_exercises: an id that no
\* row of the table has (0 when the ids of the model are used up)
FreeItemIds(items) == (1..MaxItemId) \ {i.id : i \in items}
NewItemId(items) ==
  IF FreeItemIds(items) = {} THEN 0
  ELSE CHOOSE n \in FreeItemIds(items) : \A m \in FreeItemIds(items) : n <= m

Slots == {"r1", "r2"}

\* getWorkoutPlanStats: its locals totalPlans and publicPlans (Null: the
\* count of a failed select) and the three numbers of its response
NoStats ==
  [totalPlans |-> Null, publicPlans |-> Null,
   total_plans |-> 0, public_plans |-> 0, private_plans |-> 0]

\* req.query.page and req.query.limit of a list endpoint (Undef: the
\* parameter is absent; otherwise the number its string of digits denotes),
\* the count of the filtered result, the bounds handed to .range() and the
\* totalPages of the response
NoPaging ==
  [page |-> Undef, limit |-> Undef, count |-> 0, from |-> 0, to |-> 0, totalPages |-> 0]

NoData == [plan |-> {}, exercises |-> {}, rows |-> {}]

\* req.query of the list endpoint: created_by and is_public ("true", "false")
NoQuery == [created_by |-> SUndef, is_public |-> SUndef]

\* a slot: op/user/id/itemId/body/item/query/account/email/exId are the
\* request; planId, pending, failed, orderIndex are locals of the handler;
\* status and data are the response; calls counts the gateway calls issued,
\* last is the answer of the latest one, rollback the answer of the
\* compensating delete, deleted the answer of the delete of a replace,
\* cascade the number of rows ON DELETE CASCADE removed for deleteUser,
\* paging and stats the locals and results of the list and statistics handlers
IdleReq ==
  [op |-> "idle", pc |-> "idle", user |-> Anon, id |-> 0, itemId |-> 0,
   body |-> NoBody, item |-> NoItem, query |-> NoQuery,
   account |-> SUndef, email |-> SUndef, exId |-> SUndef, deleted |-> "none",
   cascade |-> 0, paging |-> NoPaging, stats |-> NoStats,
   planId |-> 0, pending |-> {}, failed |-> {}, orderIndex |-> 0,
   status |-> 0, data |-> NoData, calls |-> 0, last |-> "none", rollback |-> "none"]

Free(r) == r \in slots /\ req[r].pc = "idle" /\ started < MaxRequests

Init ==
  /\ workout_plans = {}
  /\ workout_plan_exercises = {}
  /\ nextPlanId = 1
  /\ slots = {"r1"}
  /\ started = 0
  /\ req = [r \in Slots |-> IdleReq]
  /\ users = RegisteredUsers
  /\ gym_logs = {}
  /\ exercise_rows = exercises

\* the same store with every slot accepting requests
InitConcurrent ==
  /\ workout_plans = {}
  /\ workout_plan_exercises = {}
  /\ nextPlanId = 1
  /\ slots = Slots
  /\ started = 0
  /\ req = [r \in Slots |-> IdleReq]
  /\ users = RegisteredUsers
  /\ gym_logs = {}
  /\ exercise_rows = exercises

\* res.status(s).json(...)
Respond(r, s, d, ans) ==
  req' = [req EXCEPT ![r] = [@ EXCEPT !.pc = "done", !.status = s, !.data = d,
                                      !.calls = @ + 1, !.last = ans]]

\* ------------------------------------------------------- createWorkoutPlan
\* router.use(authenticate); router.post('/', validateWorkoutPlan, create)
StartCreate(r) ==
  /\ Free(r)
  /\ \E u \in Actors, exs \in ExerciseLists,
        has \in {{"name", "exercises"}, {"name", "is_public", "exercises"}, {"name"}} :
       \* const { ..., is_public = false, exercises } = req.body
       LET b == Body(has, "Push Day", "is_public" \in has,
                     IF "exercises" \in has THEN exs ELSE <<>>)
           q == [IdleReq EXCEPT !.op = "create", !.user = u, !.body = b]
       IN /\ ("exercises" \notin has => exs = <<>>)
          /\ req' = [req EXCEPT ![r] =
                IF u = Anon THEN [q EXCEPT !.pc = "done", !.status = 401]
                ELSE IF ~ workoutPlanSchema(b) THEN [q EXCEPT !.pc = "done", !.status = 400]
                ELSE [q EXCEPT !.pc = "insert_plan"]]
  /\ started' = started + 1
  /\ UNCHANGED <<store, slots>>
  /\ UNCHANGED otherTables

\* created_by UUID REFERENCES users(id)
PlanInsertAllowedNoKey(accounts, owner) == TRUE
PlanInsertAllowed(accounts, owner) == owner \in UserIdsOf(accounts)

\* if (planError) throw planError: the catch answers 500
OnPlanErrorGoOn(r) ==
  req' = [req EXCEPT ![r] = [@ EXCEPT !.pc = "insert_items",
             !.pending = 1..Len(req[r].body.exercises),
             !.calls = @ + 1, !.last = "error"]]
OnPlanError(r) == Respond(r, 500, NoData, "error")

\* supabase.from('workout_plans').insert([...]).select().single()
CreateInsertPlan(r) ==
  /\ req[r].op = "create" /\ req[r].pc = "insert_plan"
  /\ \/ /\ nextPlanId <= MaxPlanId
        /\ PlanInsertAllowed(users, req[r].user)
        /\ workout_plans' = workout_plans \cup
             {PlanRow(nextPlanId, req[r].body.name, req[r].user, req[r].body.is_public)}
        /\ nextPlanId' = nextPlanId + 1
        /\ req' = [req EXCEPT ![r] = [@ EXCEPT !.pc = "insert_items", !.planId = nextPlanId,
                      !.pending = 1..Len(req[r].body.exercises),
                      !.calls = @ + 1, !.last = "ok"]]
        /\ UNCHANGED <<workout_plan_exercises, slots, started>>
     \/ /\ OnPlanError(r)
        /\ UNCHANGED <<store, slots, started>>
  /\ UNCHANGED otherTables

\* one of the inserts of exercises.map(...): they are issued together, the
\* store serves them in any order, each answers with data or with an error
InsertItem(r) ==
  /\ req[r].op \in {"create", "update"} /\ req[r].pc = "insert_items"
  /\ \E k \in req[r].pending :
       LET x == req[r].body.exercises[k]
           row == ItemRow(NewItemId(workout_plan_exercises), req[r].planId, x,
                          OrderIndexOr(x.order_index, k))
       IN \/ /\ InsertAllowed(workout_plans, workout_plan_exercises, row)
             /\ row.id # 0
             /\ workout_plan_exercises' = workout_plan_exercises \cup {row}
             /\ req' = [req EXCEPT ![r] = [@ EXCEPT !.pending = @ \ {k},
                           !.calls = @ + 1, !.last = "ok"]]
          \/ /\ req' = [req EXCEPT ![r] = [@ EXCEPT !.pending = @ \ {k},
                           !.failed = @ \cup {k}, !.calls = @ + 1, !.last = "error"]]
             /\ UNCHANGED workout_plan_exercises
  /\ UNCHANGED <<workout_plans, nextPlanId, slots, started>>
  /\ UNCHANGED otherTables

\* after Promise.all, exerciseErrors.length > 0: the rollback delete (its
\* answer is not looked at), then the throw that the catch turns into a 500
CreateRollback(r) ==
  /\ req[r].op = "create" /\ req[r].pc = "insert_items"
  /\ req[r].pending = {} /\ req[r].failed # {}
  /\ \/ /\ workout_plans' = {p \in workout_plans : p.id # req[r].planId}
        /\ workout_plan_exercises' =
             ItemsAfterPlanDelete(workout_plan_exercises, req[r].planId)
        /\ req' = [req EXCEPT ![r] = [@ EXCEPT !.pc = "done", !.status = 500,
                      !.calls = @ + 1, !.last = "ok", !.rollback = "ok"]]
     \/ /\ req' = [req EXCEPT ![r] = [@ EXCEPT !.pc = "done", !.status = 500,
                      !.calls = @ + 1, !.last = "error", !.rollback = "error"]]
        /\ UNCHANGED <<workout_plans, workout_plan_exercises>>
  /\ UNCHANGED <<nextPlanId, slots, started>>
  /\ UNCHANGED otherTables

\* ------------------------------------------- getWorkoutPlanWithExercises
SuccessStatus(op) == IF op = "create" THEN 201 ELSE 200

\* the handler is at its call of the helper: getWorkoutPlanById at once,
\* createWorkoutPlan after Promise.all with no error among the results,
\* updateWorkoutPlan after Promise.all whatever the results
ReadyToRead(r) ==
  \/ req[r].pc = "read_plan"
  \/ /\ req[r].pc = "insert_items" /\ req[r].pending = {}
     /\ (req[r].op = "update" \/ req[r].failed = {})

\* select from workout_plans where id = planId, .single(); PGRST116 (no row)
\* makes the helper return null, which createWorkoutPlan and
\* updateWorkoutPlan send as data and getWorkoutPlanById answers with 404
ReadPlan(r) ==
  /\ ReadyToRead(r)
  /\ LET found == {p \in workout_plans : p.id = req[r].planId}
     IN \/ /\ found # {}
           /\ req' = [req EXCEPT ![r] = [@ EXCEPT !.pc = "read_items",
                         !.data = [NoData EXCEPT !.plan = found],
                         !.calls = @ + 1, !.last = "ok"]]
        \/ /\ found = {}
           /\ Respond(r, IF req[r].op = "getById" THEN 404 ELSE SuccessStatus(req[r].op),
                      NoData, "notfound")
        \/ Respond(r, 500, NoData, "error")
  /\ UNCHANGED <<store, slots, started>>
  /\ UNCHANGED otherTables

\* select from workout_plan_exercises where workout_plan_id = planId
ReadItems(r) ==
  /\ req[r].op \in {"create", "update", "getById"} /\ req[r].pc = "read_items"
  /\ \/ Respond(r, SuccessStatus(req[r].op),
                [req[r].data EXCEPT !.exercises =
                   {FormatItem(i) : i \in {j \in workout_plan_exercises :
                                             j.workout_plan_id = req[r].planId}}],
                "ok")
     \/ Respond(r, 500, NoData, "error")
  /\ UNCHANGED <<store, slots, started>>
  /\ UNCHANGED otherTables

\* ------------------------------------------------------ getWorkoutPlanById
\* router.get('/:id', getWorkoutPlanById): the handler goes straight to the
\* helper; req.user is not looked at
StartGetById(r) ==
  /\ Free(r)
  /\ \E u \in Actors, id \in 1..MaxPlanId :
       LET q == [IdleReq EXCEPT !.op = "getById", !.user = u, !.id = id, !.planId = id]
       IN req' = [req EXCEPT ![r] =
             IF u = Anon THEN [q EXCEPT !.pc = "done", !.status = 401]
             ELSE [q EXCEPT !.pc = "read_plan"]]
  /\ started' = started + 1
  /\ UNCHANGED <<store, slots>>
  /\ UNCHANGED otherTables

\* ------------------------------------------------------ getAllWorkoutPlans
\* the rows the query of getAllWorkoutPlans selects for req.user.id = u:
\* .or(created_by.eq.u,is_public.eq.true), then the filters of req.query
ListedPlans(plans, u, q) ==
  {p \in plans :
     /\ (p.created_by = u \/ p.is_public)
     /\ (q.created_by # SUndef => p.created_by = q.created_by)
     /\ (q.is_public # SUndef => p.is_public = (q.is_public = "true"))}

StartGetAll(r) ==
  /\ Free(r)
  /\ \E u \in Actors, cb \in Users \cup {SUndef}, pub \in {SUndef, "true", "false"} :
       LET q == [IdleReq EXCEPT !.op = "getAll", !.user = u,
                                !.query = [created_by |-> cb, is_public |-> pub]]
       IN req' = [req EXCEPT ![r] =
             IF u = Anon THEN [q EXCEPT !.pc = "done", !.status = 401]
             ELSE [q EXCEPT !.pc = "list_plans"]]
  /\ started' = started + 1
  /\ UNCHANGED <<store, slots>>
  /\ UNCHANGED otherTables

ListPlans(r) ==
  /\ req[r].op = "getAll" /\ req[r].pc = "list_plans"
  /\ \/ Respond(r, 200,
                [NoData EXCEPT !.rows = ListedPlans(workout_plans, req[r].user, req[r].query)],
                "ok")
     \/ Respond(r, 500, NoData, "error")
  /\ UNCHANGED <<store, slots, started>>
  /\ UNCHANGED otherTables

\* ------------------------------------- the ownership check of the writers
Writers == {"update", "delete", "add", "updateItem", "remove"}

AfterCheckDeleteFirst(op) ==
  CASE op = "update" -> "delete_items"
    [] op = "delete" -> "delete_plan"
    [] op = "add" -> "check_dup"
    [] op = "updateItem" -> "update_item"
    [] OTHER -> "delete_item"
AfterCheck(op) ==
  CASE op = "update" -> "update_plan"
    [] op = "delete" -> "delete_plan"
    [] op = "add" -> "check_dup"
    [] op = "updateItem" -> "update_item"
    [] OTHER -> "delete_item"

\* existingPlan.created_by !== req.user.id
NotOwnerPublicExempt(p, u) == p.created_by # u /\ ~ p.is_public
NotOwner(p, u) == p.created_by # u

\* select id, created_by from workout_plans where id = :id, .single():
\* PGRST116 is answered 404; any other error leaves existingPlan null and the
\* read of existingPlan.created_by throws, which the catch answers with 500
CheckOwner(r) ==
  /\ req[r].op \in Writers /\ req[r].pc = "check_owner"
  /\ LET found == {p \in workout_plans : p.id = req[r].id}
     IN \/ /\ found = {}
           /\ Respond(r, 404, NoData, "notfound")
        \/ /\ \E p \in found : NotOwner(p, req[r].user)
           /\ Respond(r, 403, NoData, "ok")
        \/ /\ \E p \in found : ~ NotOwner(p, req[r].user)
           /\ req' = [req EXCEPT ![r] = [@ EXCEPT !.pc = AfterCheck(req[r].op),
                         !.calls = @ + 1, !.last = "ok"]]
        \/ Respond(r, 500, NoData, "error")
  /\ UNCHANGED <<store, slots, started>>
  /\ UNCHANGED otherTables

\* ------------------------------------------------------- updateWorkoutPlan
\* router.put('/:id', validateWorkoutPlanUpdate, updateWorkoutPlan)
\* the key sets of the update bodies the clients send: none, each key alone,
\* all keys
UpdateKeys == {{}, {"name"}, {"is_public"}, {"exercises"}, {"name", "is_public", "exercises"}}

StartUpdate(r) ==
  /\ Free(r)
  /\ \E u \in Actors, id \in 1..MaxPlanId, has \in UpdateKeys,
        pub \in BOOLEAN, exs \in ExerciseLists :
       LET b == Body(has, IF "name" \in has THEN "Leg Day" ELSE SUndef, pub, exs)
           q == [IdleReq EXCEPT !.op = "update", !.user = u, !.id = id, !.planId = id,
                                !.body = b]
       IN /\ ("is_public" \notin has => pub = FALSE)
          /\ ("exercises" \notin has => exs = <<>>)
          /\ req' = [req EXCEPT ![r] =
                IF u = Anon THEN [q EXCEPT !.pc = "done", !.status = 401]
                ELSE IF ~ workoutPlanUpdateSchema(b) THEN [q EXCEPT !.pc = "done", !.status = 400]
                ELSE [q EXCEPT !.pc = "check_owner"]]
  /\ started' = started + 1
  /\ UNCHANGED <<store, slots>>
  /\ UNCHANGED otherTables

\* updateData: if (name) ..., if (is_public !== undefined) ...
UpdatedPlanTruthy(p, b) ==
  [p EXCEPT !.name = IF "name" \in b.has /\ ~ FalsyStr(b.name) THEN b.name ELSE @,
            !.is_public = IF "is_public" \in b.has /\ b.is_public THEN TRUE ELSE @]
UpdatedPlan(p, b) ==
  [p EXCEPT !.name = IF "name" \in b.has /\ ~ FalsyStr(b.name) THEN b.name ELSE @,
            !.is_public = IF "is_public" \in b.has THEN b.is_public ELSE @]

\* supabase.from('workout_plans').update(updateData).eq('id', id)
UpdatePlan(r) ==
  /\ req[r].op = "update" /\ req[r].pc = "update_plan"
  /\ \/ /\ workout_plans' = {IF p.id = req[r].id THEN UpdatedPlan(p, req[r].body) ELSE p :
                               p \in workout_plans}
        /\ req' = [req EXCEPT ![r] = [@ EXCEPT
                      !.pc = IF "exercises" \in req[r].body.has THEN "delete_items"
                             ELSE "read_plan",
                      !.calls = @ + 1, !.last = "ok"]]
     \/ /\ Respond(r, 500, NoData, "error")
        /\ UNCHANGED workout_plans
  /\ UNCHANGED <<workout_plan_exercises, nextPlanId, slots, started>>
  /\ UNCHANGED otherTables

\* delete from workout_plan_exercises where workout_plan_id = id; the answer
\* is not looked at
ItemsAfterReplaceDeleteNone(items, pid) == items
ItemsAfterReplaceDelete(items, pid) == {i \in items : i.workout_plan_id # pid}

DeleteItems(r) ==
  /\ req[r].op = "update" /\ req[r].pc = "delete_items"
  /\ \/ /\ workout_plan_exercises' =
             ItemsAfterReplaceDelete(workout_plan_exercises, req[r].id)
        /\ req' = [req EXCEPT ![r] = [@ EXCEPT !.pc = "insert_items",
                      !.pending = 1..Len(req[r].body.exercises),
                      !.calls = @ + 1, !.last = "ok", !.deleted = "ok"]]
     \/ /\ req' = [req EXCEPT ![r] = [@ EXCEPT !.pc = "insert_items",
                      !.pending = 1..Len(req[r].body.exercises),
                      !.calls = @ + 1, !.last = "error", !.deleted = "error"]]
        /\ UNCHANGED workout_plan_exercises
  /\ UNCHANGED <<workout_plans, nextPlanId, slots, started>>
  /\ UNCHANGED otherTables

\* ------------------------------------------------------- deleteWorkoutPlan
StartDelete(r) ==
  /\ Free(r)
  /\ \E u \in Actors, id \in 1..MaxPlanId :
       LET q == [IdleReq EXCEPT !.op = "delete", !.user = u, !.id = id]
       IN req' = [req EXCEPT ![r] =
             IF u = Anon THEN [q EXCEPT !.pc = "done", !.status = 401]
             ELSE [q EXCEPT !.pc = "check_owner"]]
  /\ started' = started + 1
  /\ UNCHANGED <<store, slots>>
  /\ UNCHANGED otherTables

DeletePlan(r) ==
  /\ req[r].op = "delete" /\ req[r].pc = "delete_plan"
  /\ \/ /\ workout_plans' = {p \in workout_plans : p.id # req[r].id}
        /\ workout_plan_exercises' = ItemsAfterPlanDelete(workout_plan_exercises, req[r].id)
        /\ Respond(r, 200, NoData, "ok")
     \/ /\ Respond(r, 500, NoData, "error")
        /\ UNCHANGED <<workout_plans, workout_plan_exercises>>
  /\ UNCHANGED <<nextPlanId, slots, started>>
  /\ UNCHANGED otherTables

\* ------------------------------------------------ addExerciseToWorkoutPlan
\* router.post('/:planId/exercises', addExerciseToWorkoutPlan)
\* the route has no validation middleware: the body reaches the handler as
\* sent, also one that workoutPlanExerciseSchema would refuse (sets: 51)
AddBodies == ItemSpecs \cup {ItemSpec("e1", 51, 8, Undef, Undef, SUndef, Undef)}

StartAdd(r) ==
  /\ Free(r)
  /\ \E u \in Actors, id \in 1..MaxPlanId, x \in AddBodies :
       LET q == [IdleReq EXCEPT !.op = "add", !.user = u, !.id = id, !.item = x]
       IN req' = [req EXCEPT ![r] =
             IF u = Anon THEN [q EXCEPT !.pc = "done", !.status = 401]
             ELSE [q EXCEPT !.pc = "check_owner"]]
  /\ started' = started + 1
  /\ UNCHANGED <<store, slots>>
  /\ UNCHANGED otherTables

\* select id from workout_plan_exercises where workout_plan_id, exercise_id,
\* .single(): only data is looked at, an error reads as "no such item"
ExistingExerciseNone(items, pid, eid) == {}
ExistingExercise(items, pid, eid) ==
  {i \in items : i.workout_plan_id = pid /\ i.exercise_id = eid}

CheckDup(r) ==
  /\ req[r].op = "add" /\ req[r].pc = "check_dup"
  /\ LET existing == ExistingExercise(workout_plan_exercises, req[r].id,
                                      req[r].item.exercise_id)
         goOn(ans) ==
           req' = [req EXCEPT ![r] = [@ EXCEPT
                     !.pc = IF FalsyNum(req[r].item.order_index) THEN "next_order"
                            ELSE "insert_item",
                     !.orderIndex = req[r].item.order_index,
                     !.calls = @ + 1, !.last = ans]]
     IN \/ /\ existing # {}
           /\ Respond(r, 400, NoData, "ok")
        \/ /\ existing = {}
           /\ goOn("notfound")
        \/ goOn("error")
  /\ UNCHANGED <<store, slots, started>>
  /\ UNCHANGED otherTables

\* getNextOrderIndex: the largest order_index of the plan plus 1, 1 for a plan
\* without items and 1 when the select fails
MaxOrderIndex(items) ==
  CHOOSE m \in {i.order_index : i \in items} : \A i \in items : i.order_index <= m
NextOrderIndexByCount(items) == Cardinality(items) + 1
NextOrderIndexOf(items) == IF items = {} THEN 1 ELSE MaxOrderIndex(items) + 1

getNextOrderIndex(r) ==
  /\ req[r].op = "add" /\ req[r].pc = "next_order"
  /\ \/ req' = [req EXCEPT ![r] = [@ EXCEPT !.pc = "insert_item",
                   !.orderIndex = NextOrderIndexOf({i \in workout_plan_exercises :
                                                      i.workout_plan_id = req[r].id}),
                   !.calls = @ + 1, !.last = "ok"]]
     \/ req' = [req EXCEPT ![r] = [@ EXCEPT !.pc = "insert_item", !.orderIndex = 1,
                   !.calls = @ + 1, !.last = "error"]]
  /\ UNCHANGED <<store, slots, started>>
  /\ UNCHANGED otherTables

AddInsert(r) ==
  /\ req[r].op = "add" /\ req[r].pc = "insert_item"
  /\ LET row == ItemRow(NewItemId(workout_plan_exercises), req[r].id, req[r].item,
                        req[r].orderIndex)
     IN \/ /\ InsertAllowed(workout_plans, workout_plan_exercises, row)
           /\ row.id # 0
           /\ workout_plan_exercises' = workout_plan_exercises \cup {row}
           /\ Respond(r, 201, [NoData EXCEPT !.exercises = {FormatItem(row)}], "ok")
        \/ /\ Respond(r, 500, NoData, "error")
           /\ UNCHANGED workout_plan_exercises
  /\ UNCHANGED <<workout_plans, nextPlanId, slots, started>>
  /\ UNCHANGED otherTables

\* --------------------------------------------- updateExerciseInWorkoutPlan
\* workoutPlanExerciseUpdateSchema: every key optional, at least one key
ItemPatches ==
  { ItemSpec(SUndef, 6, Undef, 0, Undef, "", Undef),
    ItemSpec(SUndef, Undef, 12, Undef, 90, SUndef, 7) }
NoPatch == ItemSpec(SUndef, Undef, Undef, Undef, Undef, SUndef, Undef)

workoutPlanExerciseUpdateSchema(x) ==
  /\ x # NoPatch
  /\ (x.sets = Undef \/ (x.sets >= 1 /\ x.sets <= 50))
  /\ (x.reps = Undef \/ (x.reps >= 1 /\ x.reps <= 1000))
  /\ (x.weight = Undef \/ (x.weight >= 0 /\ x.weight <= 10000))
  /\ (x.rest_time = Undef \/ (x.rest_time >= 0 /\ x.rest_time <= 3600))
  /\ x.notes # SNull
  /\ (x.order_index = Undef \/ x.order_index >= 1)

StartUpdateItem(r) ==
  /\ Free(r)
  /\ \E u \in Actors, id \in 1..MaxPlanId, iid \in 1..MaxItemId,
        x \in ItemPatches \cup {NoPatch} :
       LET q == [IdleReq EXCEPT !.op = "updateItem", !.user = u, !.id = id,
                                !.itemId = iid, !.item = x]
       IN req' = [req EXCEPT ![r] =
             IF u = Anon THEN [q EXCEPT !.pc = "done", !.status = 401]
             ELSE IF ~ workoutPlanExerciseUpdateSchema(x)
               THEN [q EXCEPT !.pc = "done", !.status = 400]
             ELSE [q EXCEPT !.pc = "check_owner"]]
  /\ started' = started + 1
  /\ UNCHANGED <<store, slots>>
  /\ UNCHANGED otherTables

\* updateData: if (sets) ..., if (weight !== undefined) ..., if (order_index) ...
PatchedItemTruthy(i, x) ==
  [i EXCEPT !.sets = IF FalsyNum(x.sets) THEN @ ELSE x.sets,
            !.reps = IF FalsyNum(x.reps) THEN @ ELSE x.reps,
            !.weight = IF FalsyNum(x.weight) THEN @ ELSE x.weight,
            !.rest_time = IF FalsyNum(x.rest_time) THEN @ ELSE x.rest_time,
            !.notes = IF FalsyStr(x.notes) THEN @ ELSE x.notes,
            !.order_index = IF FalsyNum(x.order_index) THEN @ ELSE x.order_index]
PatchedItem(i, x) ==
  [i EXCEPT !.sets = IF FalsyNum(x.sets) THEN @ ELSE x.sets,
            !.reps = IF FalsyNum(x.reps) THEN @ ELSE x.reps,
            !.weight = IF x.weight = Undef THEN @ ELSE x.weight,
            !.rest_time = IF x.rest_time = Undef THEN @ ELSE x.rest_time,
            !.notes = IF x.notes = SUndef THEN @ ELSE x.notes,
            !.order_index = IF FalsyNum(x.order_index) THEN @ ELSE x.order_index]

\* the rows .eq('id', exerciseId).eq('workout_plan_id', planId) selects
ItemByIdOnly(items, iid, pid) == {i \in items : i.id = iid}
ItemByIdAndPlan(items, iid, pid) ==
  {i \in items : i.id = iid /\ i.workout_plan_id = pid}

UpdateItem(r) ==
  /\ req[r].op = "updateItem" /\ req[r].pc = "update_item"
  /\ LET target == ItemByIdAndPlan(workout_plan_exercises, req[r].itemId, req[r].id)
     IN \/ /\ target = {}
           /\ Respond(r, 404, NoData, "notfound")
           /\ UNCHANGED workout_plan_exercises
        \/ /\ target # {}
           /\ workout_plan_exercises' =
                (workout_plan_exercises \ target) \cup
                {PatchedItem(i, req[r].item) : i \in target}
           /\ Respond(r, 200,
                [NoData EXCEPT !.exercises =
                   {FormatItem(PatchedItem(i, req[r].item)) : i \in target}], "ok")
        \/ /\ Respond(r, 500, NoData, "error")
           /\ UNCHANGED workout_plan_exercises
  /\ UNCHANGED <<workout_plans, nextPlanId, slots, started>>
  /\ UNCHANGED otherTables

\* ------------------------------------------- removeExerciseFromWorkoutPlan
StartRemove(r) ==
  /\ Free(r)
  /\ \E u \in Actors, id \in 1..MaxPlanId, iid \in 1..MaxItemId :
       LET q == [IdleReq EXCEPT !.op = "remove", !.user = u, !.id = id, !.itemId = iid]
       IN req' = [req EXCEPT ![r] =
             IF u = Anon THEN [q EXCEPT !.pc = "done", !.status = 401]
             ELSE [q EXCEPT !.pc = "check_owner"]]
  /\ started' = started + 1
  /\ UNCHANGED <<store, slots>>
  /\ UNCHANGED otherTables

\* delete from workout_plan_exercises where id = exerciseId and
\* workout_plan_id = planId
DeleteItem(r) ==
  /\ req[r].op = "remove" /\ req[r].pc = "delete_item"
  /\ \/ /\ workout_plan_exercises' = workout_plan_exercises \
             ItemByIdAndPlan(workout_plan_exercises, req[r].itemId, req[r].id)
        /\ Respond(r, 200, NoData, "ok")
     \/ /\ Respond(r, 500, NoData, "error")
        /\ UNCHANGED workout_plan_exercises
  /\ UNCHANGED <<workout_plans, nextPlanId, slots, started>>
  /\ UNCHANGED otherTables

\* the response is out: the slot takes the next request
Finish(r) ==
  /\ req[r].pc = "done"
  /\ req' = [req EXCEPT ![r] = IdleReq]
  /\ UNCHANGED <<store, slots, started>>
  /\ UNCHANGED otherTables

Next ==
  \E r \in Slots :
    \/ Finish(r)
    \/ StartCreate(r)
    \/ CreateInsertPlan(r)
    \/ InsertItem(r)
    \/ CreateRollback(r)
    \/ ReadPlan(r)
    \/ ReadItems(r)
    \/ StartGetById(r)
    \/ StartGetAll(r)
    \/ ListPlans(r)
    \/ CheckOwner(r)
    \/ StartUpdate(r)
    \/ UpdatePlan(r)
    \/ DeleteItems(r)
    \/ StartDelete(r)
    \/ DeletePlan(r)
    \/ StartAdd(r)
    \/ CheckDup(r)
    \/ getNextOrderIndex(r)
    \/ AddInsert(r)
    \/ StartUpdateItem(r)
    \/ UpdateItem(r)
    \/ StartRemove(r)
    \/ DeleteItem(r)

Spec == Init /\ [][Next]_vars

ConcurrentSpec == InitConcurrent /\ [][Next]_vars

\* the store after the first request, in which u1 created a plan with one
\* item, every slot accepting requests: the updates of that plan served
\* concurrently
InitConcurrentUpdate ==
  /\ workout_plans = {PlanRow(1, "Push Day", "u1", FALSE)}
  /\ workout_plan_exercises =
       {ItemRow(1, 1, ItemSpec("e1", 3, 8, 50, Undef, "slow", Undef), 1)}
  /\ nextPlanId = 2
  /\ slots = Slots
  /\ started = 1
  /\ req = [r \in Slots |-> IdleReq]
  /\ users = RegisteredUsers
  /\ gym_logs = {}
  /\ exercise_rows = exercises

UpdateNext ==
  \E r \in Slots :
    \/ Finish(r)
    \/ StartUpdate(r)
    \/ CheckOwner(r)
    \/ UpdatePlan(r)
    \/ DeleteItems(r)
    \/ InsertItem(r)
    \/ ReadPlan(r)
    \/ ReadItems(r)

ConcurrentUpdateSpec == InitConcurrentUpdate /\ [][UpdateNext]_vars

\* the operations that write the items of an existing plan, served
\* concurrently
ItemWritersNext ==
  \E r \in Slots :
    \/ Finish(r)
    \/ CheckOwner(r)
    \/ StartUpdate(r)
    \/ UpdatePlan(r)
    \/ DeleteItems(r)
    \/ InsertItem(r)
    \/ ReadPlan(r)
    \/ ReadItems(r)
    \/ StartAdd(r)
    \/ CheckDup(r)
    \/ getNextOrderIndex(r)
    \/ AddInsert(r)
    \/ StartUpdateItem(r)
    \/ UpdateItem(r)
    \/ StartRemove(r)
    \/ DeleteItem(r)

ConcurrentItemsSpec == InitConcurrentUpdate /\ [][ItemWritersNext]_vars

\* ------------------------------------------------------ getWorkoutPlanStats
\* router.get('/stats', getWorkoutPlanStats)
StartStats(r) ==
  /\ Free(r)
  /\ \E u \in Actors :
       LET q == [IdleReq EXCEPT !.op = "stats", !.user = u]
       IN req' = [req EXCEPT ![r] =
             IF u = Anon THEN [q EXCEPT !.pc = "done", !.status = 401]
             ELSE [q EXCEPT !.pc = "count_total"]]
  /\ started' = started + 1
  /\ UNCHANGED <<store, slots>>
  /\ UNCHANGED otherTables

\* `count || 0`
CountOrZero(c) == IF FalsyNum(c) THEN 0 ELSE c

\* select count where created_by = userId: only count is read, which a failed
\* select leaves null
StatsCountTotal(r) ==
  /\ req[r].op = "stats" /\ req[r].pc = "count_total"
  /\ \/ req' = [req EXCEPT ![r] = [@ EXCEPT !.pc = "count_public",
                   !.stats = [@ EXCEPT !.totalPlans =
                      Cardinality({p \in workout_plans : p.created_by = req[r].user})],
                   !.calls = @ + 1, !.last = "ok"]]
     \/ req' = [req EXCEPT ![r] = [@ EXCEPT !.pc = "count_public",
                   !.calls = @ + 1, !.last = "error"]]
  /\ UNCHANGED <<store, slots, started>>
  /\ UNCHANGED otherTables

\* select count where created_by = userId and is_public = true
StatsCountPublic(r) ==
  /\ req[r].op = "stats" /\ req[r].pc = "count_public"
  /\ \/ req' = [req EXCEPT ![r] = [@ EXCEPT !.pc = "read_difficulty",
                   !.stats = [@ EXCEPT !.publicPlans =
                      Cardinality({p \in workout_plans :
                                     p.created_by = req[r].user /\ p.is_public})],
                   !.calls = @ + 1, !.last = "ok"]]
     \/ req' = [req EXCEPT ![r] = [@ EXCEPT !.pc = "read_difficulty",
                   !.calls = @ + 1, !.last = "error"]]
  /\ UNCHANGED <<store, slots, started>>
  /\ UNCHANGED otherTables

\* select difficulty_level where created_by = userId (a column the model
\* does not carry); a failed select reads as no data
StatsReadDifficulty(r) ==
  /\ req[r].op = "stats" /\ req[r].pc = "read_difficulty"
  /\ \E ans \in {"ok", "error"} :
       req' = [req EXCEPT ![r] = [@ EXCEPT !.pc = "read_muscles",
                  !.calls = @ + 1, !.last = ans]]
  /\ UNCHANGED <<store, slots, started>>
  /\ UNCHANGED otherTables

\* select muscle_types where created_by = userId, then the response
StatsReadMuscles(r) ==
  /\ req[r].op = "stats" /\ req[r].pc = "read_muscles"
  /\ \E ans \in {"ok", "error"} :
       LET t == CountOrZero(req[r].stats.totalPlans)
           pub == CountOrZero(req[r].stats.publicPlans)
       IN req' = [req EXCEPT ![r] = [@ EXCEPT !.pc = "done", !.status = 200,
                     !.stats = [@ EXCEPT !.total_plans = t, !.public_plans = pub,
                                         !.private_plans = t - pub],
                     !.calls = @ + 1, !.last = ans]]
  /\ UNCHANGED <<store, slots, started>>
  /\ UNCHANGED otherTables

\* the store is empty again after a plan was created and deleted, and two
\* more requests are to come, served concurrently
InitConcurrentStats ==
  /\ workout_plans = {}
  /\ workout_plan_exercises = {}
  /\ nextPlanId = 2
  /\ slots = Slots
  /\ started = MaxRequests - 2
  /\ req = [r \in Slots |-> IdleReq]
  /\ users = RegisteredUsers
  /\ gym_logs = {}
  /\ exercise_rows = exercises

\* the statistics next to the creations, deletions and updates of plans
StatsNext ==
  \E r \in Slots :
    \/ Finish(r)
    \/ StartStats(r)
    \/ StatsCountTotal(r)
    \/ StatsCountPublic(r)
    \/ StatsReadDifficulty(r)
    \/ StatsReadMuscles(r)
    \/ StartCreate(r)
    \/ CreateInsertPlan(r)
    \/ InsertItem(r)
    \/ CreateRollback(r)
    \/ ReadPlan(r)
    \/ ReadItems(r)
    \/ CheckOwner(r)
    \/ StartUpdate(r)
    \/ UpdatePlan(r)
    \/ DeleteItems(r)
    \/ StartDelete(r)
    \/ DeletePlan(r)

ConcurrentStatsSpec == InitConcurrentStats /\ [][StatsNext]_vars

\* the store holds a plan of u1 whose items have been removed, and two more
\* requests are to come, served concurrently
InitConcurrentAdd ==
  /\ workout_plans = {PlanRow(1, "Push Day", "u1", FALSE)}
  /\ workout_plan_exercises = {}
  /\ nextPlanId = 2
  /\ slots = Slots
  /\ started = MaxRequests - 2
  /\ req = [r \in Slots |-> IdleReq]
  /\ users = RegisteredUsers
  /\ gym_logs = {}
  /\ exercise_rows = exercises

AddNext ==
  \E r \in Slots :
    \/ Finish(r)
    \/ StartAdd(r)
    \/ CheckOwner(r)
    \/ CheckDup(r)
    \/ getNextOrderIndex(r)
    \/ AddInsert(r)

ConcurrentAddSpec == InitConcurrentAdd /\ [][AddNext]_vars

\* ------------------------------------------- pagination of the list endpoints
\* getAllWorkoutPlans, getAllGymLogs, getAllUsers and getAllExercises share
\* these statements. A parameter of req.query is a string; an absent one takes
\* the numeric default of the destructuring.
DefaultPage == 1
DefaultLimit == 10

\* 10^(number of decimal digits of n)
RECURSIVE Pow10Digits(_)
Pow10Digits(n) == IF n < 10 THEN 10 ELSE 10 * Pow10Digits(n \div 10)

\* a + b of JS for a number a and b the query's limit: the sum of two numbers,
\* the concatenation of the decimal strings when b is a string
JsPlus(a, b, bIsString) == IF bIsString THEN a * Pow10Digits(b) + b ELSE a + b

\* const offset = (page - 1) * limit: - and * convert strings to numbers
PageOf(q) == IF q.page = Undef THEN DefaultPage ELSE q.page
LimitOf(q) == IF q.limit = Undef THEN DefaultLimit ELSE q.limit
offset(q) == (PageOf(q) - 1) * LimitOf(q)
\* .range(offset, offset + limit - 1)
RangeTo(q) == JsPlus(offset(q), LimitOf(q), q.limit # Undef) - 1
\* Math.ceil(count / limit)
CeilDiv(n, d) == (n + d - 1) \div d

\* the positions (0-based) of the ordered result that .range(from, to) returns
RowsInRange(count, from, to) == {k \in 0..(count - 1) : from <= k /\ k <= to}

\* a list request has been received with page, limit and a filtered result
\* of count rows
InitPaging ==
  /\ workout_plans = {}
  /\ workout_plan_exercises = {}
  /\ nextPlanId = 1
  /\ slots = {"r1"}
  /\ started = 1
  /\ users = RegisteredUsers
  /\ gym_logs = {}
  /\ exercise_rows = exercises
  /\ \E pg \in (1..MaxPage) \cup {Undef}, lim \in (1..MaxLimit) \cup {Undef},
        n \in 0..MaxTotal :
       req = [r \in Slots |->
                IF r = "r1"
                  THEN [IdleReq EXCEPT !.op = "getAll", !.pc = "paged_select",
                          !.user = "u1",
                          !.paging = [NoPaging EXCEPT !.page = pg, !.limit = lim,
                                                      !.count = n]]
                  ELSE IdleReq]

\* await query.range(...).order(...), then the response with its pagination
PagedSelect(r) ==
  /\ req[r].op = "getAll" /\ req[r].pc = "paged_select"
  /\ LET q == req[r].paging
         from == offset(q)
         to == RangeTo(q)
     IN \/ req' = [req EXCEPT ![r] = [@ EXCEPT !.pc = "done", !.status = 200,
                      !.data = [NoData EXCEPT !.rows = RowsInRange(q.count, from, to)],
                      !.paging = [q EXCEPT !.from = from, !.to = to,
                                           !.totalPages = CeilDiv(q.count, LimitOf(q))],
                      !.calls = @ + 1, !.last = "ok"]]
        \/ Respond(r, 500, NoData, "error")
  /\ UNCHANGED <<store, slots, started, otherTables>>

PagingNext ==
  \E r \in Slots :
    \/ PagedSelect(r)
    \/ Finish(r)

PagingSpec == InitPaging /\ [][PagingNext]_vars

\* ========================================================= exercise router
\* /// router.use(authenticate) is commented out: the routes reach the
\* handlers whatever the request carries; a caller with or without a token
CatalogActors == {"u1", Anon}
NewExerciseIds == ExerciseIds \cup {"e3"}
ExerciseNames == {e.name : e \in exercises} \cup {"Deadlift"}
ExerciseReads == {"list", "filters", "byBodyPart", "getExercise", "stats"}

\* exerciseSchema: id and name required (with description, body_part,
\* exercise_type, which the bodies of the model always carry)
exerciseSchema(b) == "id" \in b.has /\ "name" \in b.has /\ b.name # ""
\* exerciseUpdateSchema: every key optional, at least one key
exerciseUpdateSchema(b) == b.has # {} /\ ("name" \in b.has => b.name # "")

\* constraints of exercises: PRIMARY KEY (id) and UNIQUE (name)
ExerciseInsertAllowed(rows, row) ==
  ~ \E e \in rows : e.id = row.id \/ e.name = row.name
ExerciseUpdateAllowed(rows, id, name) ==
  ~ \E e \in rows : e.id # id /\ e.name = name

\* router.post('/', validateExercise, createExercise)
StartCreateExercise(r) ==
  /\ Free(r)
  /\ \E u \in CatalogActors, id \in NewExerciseIds, name \in ExerciseNames,
        has \in {{"id", "name"}, {"name"}} :
       LET b == Body(has, name, FALSE, <<>>)
           q == [IdleReq EXCEPT !.op = "createExercise", !.user = u, !.body = b,
                                !.exId = IF "id" \in has THEN id ELSE SUndef]
       IN /\ ("id" \notin has => id = "e3")
          /\ req' = [req EXCEPT ![r] =
                IF ~ exerciseSchema(b) THEN [q EXCEPT !.pc = "done", !.status = 400]
                ELSE [q EXCEPT !.pc = "ex_check_name"]]
  /\ started' = started + 1
  /\ UNCHANGED <<store, slots, otherTables>>

\* select id from exercises where name = :name, .single(): only data is
\* looked at, an error reads as "no such exercise"
ExerciseByNameNone(rows, name) == {}
ExerciseByName(rows, name) == {e \in rows : e.name = name}

CheckExerciseName(r) ==
  /\ req[r].op = "createExercise" /\ req[r].pc = "ex_check_name"
  /\ LET goOn(ans) == req' = [req EXCEPT ![r] = [@ EXCEPT !.pc = "ex_insert",
                                 !.calls = @ + 1, !.last = ans]]
     IN \/ /\ ExerciseByName(exercise_rows, req[r].body.name) # {}
           /\ Respond(r, 400, NoData, "ok")
        \/ /\ ExerciseByName(exercise_rows, req[r].body.name) = {}
           /\ goOn("notfound")
        \/ goOn("error")
  /\ UNCHANGED <<store, slots, started, otherTables>>

\* insert into exercises, .select().single()
InsertExercise(r) ==
  /\ req[r].op = "createExercise" /\ req[r].pc = "ex_insert"
  /\ LET row == [id |-> req[r].exId, name |-> req[r].body.name]
     IN \/ /\ ExerciseInsertAllowed(exercise_rows, row)
           /\ exercise_rows' = exercise_rows \cup {row}
           /\ Respond(r, 201, [NoData EXCEPT !.rows = {row}], "ok")
        \/ /\ Respond(r, 500, NoData, "error")
           /\ UNCHANGED exercise_rows
  /\ UNCHANGED <<store, slots, started, users, gym_logs>>

\* router.put('/:id', validateExerciseUpdate, updateExercise)
StartUpdateExercise(r) ==
  /\ Free(r)
  /\ \E u \in CatalogActors, id \in NewExerciseIds, name \in ExerciseNames,
        has \in {{}, {"name"}, {"description"}} :
       LET b == Body(has, IF "name" \in has THEN name ELSE SUndef, FALSE, <<>>)
           q == [IdleReq EXCEPT !.op = "updateExercise", !.user = u, !.body = b,
                                !.exId = id]
       IN /\ ("name" \notin has => name = "Deadlift")
          /\ req' = [req EXCEPT ![r] =
                IF ~ exerciseUpdateSchema(b) THEN [q EXCEPT !.pc = "done", !.status = 400]
                ELSE [q EXCEPT !.pc = "ex_check_exists"]]
  /\ started' = started + 1
  /\ UNCHANGED <<store, slots, otherTables>>

\* select id from exercises where id = :id, .single(): PGRST116 is answered
\* 404, any other error is not looked at; then, `if (name)`, the name check
CheckExerciseExists(r) ==
  /\ req[r].op = "updateExercise" /\ req[r].pc = "ex_check_exists"
  /\ LET goOn(ans) ==
           req' = [req EXCEPT ![r] = [@ EXCEPT
                     !.pc = IF FalsyStr(req[r].body.name) THEN "ex_update"
                            ELSE "ex_check_other",
                     !.calls = @ + 1, !.last = ans]]
     IN \/ /\ ~ \E e \in exercise_rows : e.id = req[r].exId
           /\ Respond(r, 404, NoData, "notfound")
        \/ /\ \E e \in exercise_rows : e.id = req[r].exId
           /\ goOn("ok")
        \/ goOn("error")
  /\ UNCHANGED <<store, slots, started, otherTables>>

\* select id from exercises where name = :name and id <> :id, .single()
ExerciseByNameOtherNone(rows, name, id) == {}
ExerciseByNameOther(rows, name, id) == {e \in rows : e.name = name /\ e.id # id}

CheckExerciseNameOther(r) ==
  /\ req[r].op = "updateExercise" /\ req[r].pc = "ex_check_other"
  /\ LET goOn(ans) == req' = [req EXCEPT ![r] = [@ EXCEPT !.pc = "ex_update",
                                 !.calls = @ + 1, !.last = ans]]
         other == ExerciseByNameOther(exercise_rows, req[r].body.name, req[r].exId)
     IN \/ /\ other # {}
           /\ Respond(r, 400, NoData, "ok")
        \/ /\ other = {}
           /\ goOn("notfound")
        \/ goOn("error")
  /\ UNCHANGED <<store, slots, started, otherTables>>

\* updateData: if (name) updateData.name = name
UpdatedExercise(e, b) ==
  [e EXCEPT !.name = IF FalsyStr(b.name) THEN @ ELSE b.name]

\* update exercises set ... where id = :id, .select().single(): no row is an
\* error (PGRST116), as is a name another row has; both are thrown
UpdateExercise(r) ==
  /\ req[r].op = "updateExercise" /\ req[r].pc = "ex_update"
  /\ LET target == {e \in exercise_rows : e.id = req[r].exId}
         after == {UpdatedExercise(e, req[r].body) : e \in target}
     IN \/ /\ target # {}
           /\ \A e \in after : ExerciseUpdateAllowed(exercise_rows, e.id, e.name)
           /\ exercise_rows' = (exercise_rows \ target) \cup after
           /\ Respond(r, 200, [NoData EXCEPT !.rows = after], "ok")
        \/ /\ Respond(r, 500, NoData, "error")
           /\ UNCHANGED exercise_rows
  /\ UNCHANGED <<store, slots, started, users, gym_logs>>

\* router.get: '/', '/filters', '/stats', '/by-body-part', '/:id' and
\* '/constants', which answers from ExerciseUtils.getConstants() without a
\* gateway call
StartReadExercises(r) ==
  /\ Free(r)
  /\ \E u \in CatalogActors, op \in ExerciseReads \cup {"constants"}, id \in NewExerciseIds :
       LET q == [IdleReq EXCEPT !.op = op, !.user = u,
                                !.exId = IF op = "getExercise" THEN id ELSE SUndef]
       IN /\ (op # "getExercise" => id = "e3")
          /\ req' = [req EXCEPT ![r] =
                IF op = "constants" THEN [q EXCEPT !.pc = "done", !.status = 200]
                ELSE [q EXCEPT !.pc = "ex_read"]]
  /\ started' = started + 1
  /\ UNCHANGED <<store, slots, otherTables>>

\* the select of getAllExercises, getExerciseFilters, getExercisesByBodyPart
\* and getExerciseById (PGRST116: 404); an error is thrown and answered 500
ReadExercises(r) ==
  /\ req[r].op \in ExerciseReads \ {"stats"} /\ req[r].pc = "ex_read"
  /\ LET found == IF req[r].op = "getExercise"
                    THEN {e \in exercise_rows : e.id = req[r].exId}
                    ELSE exercise_rows
     IN \/ /\ (req[r].op = "getExercise" => found # {})
           /\ Respond(r, 200, [NoData EXCEPT !.rows = found], "ok")
        \/ /\ req[r].op = "getExercise" /\ found = {}
           /\ Respond(r, 404, NoData, "notfound")
        \/ Respond(r, 500, NoData, "error")
  /\ UNCHANGED <<store, slots, started, otherTables>>

\* getExerciseStats: three selects, of which only count and data are looked
\* at (`bodyPartData?.reduce(...) || {}`), then 200
ReadExerciseStats(r) ==
  /\ req[r].op = "stats" /\ req[r].pc = "ex_read"
  /\ \E ans \in {"ok", "error"} :
       req' = [req EXCEPT ![r] =
          IF req[r].calls = 2
            THEN [@ EXCEPT !.pc = "done", !.status = 200, !.calls = 3, !.last = ans]
            ELSE [@ EXCEPT !.calls = @ + 1, !.last = ans]]
  /\ UNCHANGED <<store, slots, started, otherTables>>

CatalogNext ==
  \E r \in Slots :
    \/ Finish(r)
    \/ StartCreateExercise(r)
    \/ CheckExerciseName(r)
    \/ InsertExercise(r)
    \/ StartUpdateExercise(r)
    \/ CheckExerciseExists(r)
    \/ CheckExerciseNameOther(r)
    \/ UpdateExercise(r)
    \/ StartReadExercises(r)
    \/ ReadExercises(r)
    \/ ReadExerciseStats(r)

CatalogSpec == Init /\ [][CatalogNext]_vars

\* ===================================================== user router (users)
\* ids of users rows: the accounts of Users and one id for a registration
UserIds == Users \cup {"u3"}
Emails == {EmailOf(u) : u \in UserIds}
\* id UUID DEFAULT gen_random_uuid() of users: an id that no row has
\* (SUndef when the ids of the model are used up)
NewUserId(accounts) == IF "u3" \in UserIdsOf(accounts) THEN SUndef ELSE "u3"

\* userSchema: name, email, password required
userSchema(b) == "email" \in b.has /\ "name" \in b.has
\* userUpdateSchema: name and email optional, at least one key
userUpdateSchema(b) == b.has # {}

\* constraint of users: UNIQUE (email)
UserEmailFreeAlways(accounts, id, email) == TRUE
UserEmailFree(accounts, id, email) ==
  ~ \E a \in accounts : a.id # id /\ a.email = email

\* router.post('/register', validateUser, createUser): a public route
StartCreateUser(r) ==
  /\ Free(r)
  /\ \E email \in Emails, has \in {{"email", "name"}, {"name"}} :
       LET b == Body(has, "Ann", FALSE, <<>>)
           q == [IdleReq EXCEPT !.op = "createUser", !.body = b,
                                !.email = IF "email" \in has THEN email ELSE SUndef]
       IN /\ ("email" \notin has => email = EmailOf("u3"))
          /\ req' = [req EXCEPT ![r] =
                IF ~ userSchema(b) THEN [q EXCEPT !.pc = "done", !.status = 400]
                ELSE [q EXCEPT !.pc = "user_check_email"]]
  /\ started' = started + 1
  /\ UNCHANGED <<store, slots, otherTables>>

\* select id from users where email = :email, .single(): only data is looked
\* at, an error reads as "no such user"
UserByEmail(accounts, email) == {a \in accounts : a.email = email}

CheckUserEmail(r) ==
  /\ req[r].op = "createUser" /\ req[r].pc = "user_check_email"
  /\ LET goOn(ans) == req' = [req EXCEPT ![r] = [@ EXCEPT !.pc = "user_insert",
                                 !.calls = @ + 1, !.last = ans]]
     IN \/ /\ UserByEmail(users, req[r].email) # {}
           /\ Respond(r, 400, NoData, "ok")
        \/ /\ UserByEmail(users, req[r].email) = {}
           /\ goOn("notfound")
        \/ goOn("error")
  /\ UNCHANGED <<store, slots, started, otherTables>>

\* insert into users, .select().single()
InsertUser(r) ==
  /\ req[r].op = "createUser" /\ req[r].pc = "user_insert"
  /\ \/ /\ NewUserId(users) # SUndef
        /\ UserEmailFree(users, NewUserId(users), req[r].email)
        /\ users' = users \cup {UserRow(NewUserId(users), req[r].email)}
        /\ req' = [req EXCEPT ![r] = [@ EXCEPT !.pc = "done", !.status = 201,
                      !.account = NewUserId(users), !.calls = @ + 1, !.last = "ok"]]
     \/ /\ Respond(r, 500, NoData, "error")
        /\ UNCHANGED users
  /\ UNCHANGED <<store, slots, started, gym_logs, exercise_rows>>

\* router.put('/:id', authenticate, validateUserUpdate, updateUser)
StartUpdateUser(r) ==
  /\ Free(r)
  /\ \E u \in Actors, id \in UserIds, email \in Emails,
        has \in {{}, {"email"}, {"name"}} :
       LET b == Body(has, IF "name" \in has THEN "Ann" ELSE SUndef, FALSE, <<>>)
           q == [IdleReq EXCEPT !.op = "updateUser", !.user = u, !.account = id,
                                !.body = b,
                                !.email = IF "email" \in has THEN email ELSE SUndef]
       IN /\ ("email" \notin has => email = EmailOf("u3"))
          /\ req' = [req EXCEPT ![r] =
                IF u = Anon THEN [q EXCEPT !.pc = "done", !.status = 401]
                ELSE IF ~ userUpdateSchema(b) THEN [q EXCEPT !.pc = "done", !.status = 400]
                ELSE [q EXCEPT !.pc = "user_update"]]
  /\ started' = started + 1
  /\ UNCHANGED <<store, slots, otherTables>>

\* updateData: if (email) updateData.email = email
UpdatedUser(a, email) == [a EXCEPT !.email = IF FalsyStr(email) THEN @ ELSE email]

\* update users set ... where id = :id, .select(...).single(): PGRST116 (no
\* row) is answered 404, any other error (the UNIQUE of email among them) is
\* thrown and answered 500
UpdateUser(r) ==
  /\ req[r].op = "updateUser" /\ req[r].pc = "user_update"
  /\ LET target == {a \in users : a.id = req[r].account}
         after == {UpdatedUser(a, req[r].email) : a \in target}
     IN \/ /\ target = {}
           /\ Respond(r, 404, NoData, "notfound")
           /\ UNCHANGED users
        \/ /\ target # {}
           /\ \A a \in after : UserEmailFree(users, a.id, a.email)
           /\ users' = (users \ target) \cup after
           /\ Respond(r, 200, NoData, "ok")
        \/ /\ target # {}
           /\ \E a \in after : ~ UserEmailFree(users, a.id, a.email)
           /\ Respond(r, 500, NoData, "conflict")
           /\ UNCHANGED users
        \/ /\ Respond(r, 500, NoData, "error")
           /\ UNCHANGED users
  /\ UNCHANGED <<store, slots, started, gym_logs, exercise_rows>>

\* router.delete('/:id', authenticate, deleteUser)
StartDeleteUser(r) ==
  /\ Free(r)
  /\ \E u \in Actors, id \in UserIds :
       LET q == [IdleReq EXCEPT !.op = "deleteUser", !.user = u, !.account = id]
       IN req' = [req EXCEPT ![r] =
             IF u = Anon THEN [q EXCEPT !.pc = "done", !.status = 401]
             ELSE [q EXCEPT !.pc = "user_delete"]]
  /\ started' = started + 1
  /\ UNCHANGED <<store, slots, otherTables>>

\* delete from users where id = uid: ON DELETE CASCADE of
\* workout_plans.created_by and gym_logs.user_id, and through the plans of
\* workout_plan_exercises.workout_plan_id
PlansAfterUserDeleteNoCascade(plans, uid) == plans
PlansAfterUserDelete(plans, uid) == {p \in plans : p.created_by # uid}
LogsAfterUserDelete(logs, uid) == {g \in logs : g.user_id # uid}
ItemsOfPlans(items, plans) ==
  {i \in items : \E p \in plans : p.id = i.workout_plan_id}

\* delete from users where id = :id; a delete that matches no row is no error
DeleteUser(r) ==
  /\ req[r].op = "deleteUser" /\ req[r].pc = "user_delete"
  /\ \/ /\ users' = {a \in users : a.id # req[r].account}
        /\ workout_plans' = PlansAfterUserDelete(workout_plans, req[r].account)
        /\ workout_plan_exercises' =
             ItemsOfPlans(workout_plan_exercises,
                          PlansAfterUserDelete(workout_plans, req[r].account))
        /\ gym_logs' = LogsAfterUserDelete(gym_logs, req[r].account)
        /\ req' = [req EXCEPT ![r] = [@ EXCEPT !.pc = "done", !.status = 200,
                      !.calls = @ + 1, !.last = "ok",
                      !.cascade = Cardinality(workout_plans \ workout_plans')
                                  + Cardinality(workout_plan_exercises \ workout_plan_exercises')
                                  + Cardinality(gym_logs \ gym_logs')]]
     \/ /\ Respond(r, 500, NoData, "error")
        /\ UNCHANGED <<users, workout_plans, workout_plan_exercises, gym_logs>>
  /\ UNCHANGED <<nextPlanId, slots, started, exercise_rows>>

\* ================================================ gym-log router (gym_logs)
\* number of ids of gym_logs rows
MaxLogId == 2
GymLogRow(id, uid) == [id |-> id, user_id |-> uid]
FreeLogIds(logs) == (1..MaxLogId) \ {g.id : g \in logs}
NewLogId(logs) ==
  IF FreeLogIds(logs) = {} THEN 0
  ELSE CHOOSE n \in FreeLogIds(logs) : \A m \in FreeLogIds(logs) : n <= m

\* gymLogSchema: user_id required (with exercise, sets, reps, weight, which
\* the bodies of the model always carry)
gymLogSchema(uid) == uid # SUndef

\* user_id UUID REFERENCES users(id)
GymLogInsertAllowedNoKey(accounts, uid) == TRUE
GymLogInsertAllowed(accounts, uid) == uid \in UserIdsOf(accounts)

\* router.use(authenticate); router.post('/', validateGymLog, createGymLog):
\* user_id is a field of the body
StartCreateGymLog(r) ==
  /\ Free(r)
  /\ \E u \in Actors, uid \in UserIds \cup {SUndef} :
       LET q == [IdleReq EXCEPT !.op = "createGymLog", !.user = u, !.account = uid]
       IN req' = [req EXCEPT ![r] =
             IF u = Anon THEN [q EXCEPT !.pc = "done", !.status = 401]
             ELSE IF ~ gymLogSchema(uid) THEN [q EXCEPT !.pc = "done", !.status = 400]
             ELSE [q EXCEPT !.pc = "log_insert"]]
  /\ started' = started + 1
  /\ UNCHANGED <<store, slots, otherTables>>

\* insert into gym_logs, .select().single()
InsertGymLog(r) ==
  /\ req[r].op = "createGymLog" /\ req[r].pc = "log_insert"
  /\ \/ /\ NewLogId(gym_logs) # 0
        /\ GymLogInsertAllowed(users, req[r].account)
        /\ gym_logs' = gym_logs \cup {GymLogRow(NewLogId(gym_logs), req[r].account)}
        /\ req' = [req EXCEPT ![r] = [@ EXCEPT !.pc = "done", !.status = 201,
                      !.id = NewLogId(gym_logs), !.calls = @ + 1, !.last = "ok"]]
     \/ /\ Respond(r, 500, NoData, "error")
        /\ UNCHANGED gym_logs
  /\ UNCHANGED <<store, slots, started, users, exercise_rows>>

\* router.delete('/:id', deleteGymLog)
StartDeleteGymLog(r) ==
  /\ Free(r)
  /\ \E u \in Actors, id \in 1..MaxLogId :
       LET q == [IdleReq EXCEPT !.op = "deleteGymLog", !.user = u, !.id = id]
       IN req' = [req EXCEPT ![r] =
             IF u = Anon THEN [q EXCEPT !.pc = "done", !.status = 401]
             ELSE [q EXCEPT !.pc = "log_delete"]]
  /\ started' = started + 1
  /\ UNCHANGED <<store, slots, otherTables>>

\* delete from gym_logs where id = :id
DeleteGymLog(r) ==
  /\ req[r].op = "deleteGymLog" /\ req[r].pc = "log_delete"
  /\ \/ /\ gym_logs' = {g \in gym_logs : g.id # req[r].id}
        /\ Respond(r, 200, NoData, "ok")
     \/ /\ Respond(r, 500, NoData, "error")
        /\ UNCHANGED gym_logs
  /\ UNCHANGED <<store, slots, started, users, exercise_rows>>

\* router.get('/:id', getGymLogById)
StartGetGymLog(r) ==
  /\ Free(r)
  /\ \E u \in Actors, id \in 1..MaxLogId :
       LET q == [IdleReq EXCEPT !.op = "getGymLog", !.user = u, !.id = id]
       IN req' = [req EXCEPT ![r] =
             IF u = Anon THEN [q EXCEPT !.pc = "done", !.status = 401]
             ELSE [q EXCEPT !.pc = "log_read"]]
  /\ started' = started + 1
  /\ UNCHANGED <<store, slots, otherTables>>

\* select from gym_logs where id = :id, .single(): PGRST116 is answered 404
ReadGymLog(r) ==
  /\ req[r].op = "getGymLog" /\ req[r].pc = "log_read"
  /\ LET found == {g \in gym_logs : g.id = req[r].id}
     IN \/ /\ found # {}
           /\ Respond(r, 200, [NoData EXCEPT !.rows = found], "ok")
        \/ /\ found = {}
           /\ Respond(r, 404, NoData, "notfound")
        \/ Respond(r, 500, NoData, "error")
  /\ UNCHANGED <<store, slots, started, otherTables>>

\* the user and gym-log routers next to the handlers that insert and delete
\* plans and items
AccountNext ==
  \E r \in Slots :
    \/ Finish(r)
    \/ StartCreateUser(r)
    \/ CheckUserEmail(r)
    \/ InsertUser(r)
    \/ StartUpdateUser(r)
    \/ UpdateUser(r)
    \/ StartDeleteUser(r)
    \/ DeleteUser(r)
    \/ StartCreateGymLog(r)
    \/ InsertGymLog(r)
    \/ StartDeleteGymLog(r)
    \/ DeleteGymLog(r)
    \/ StartGetGymLog(r)
    \/ ReadGymLog(r)
    \/ StartCreate(r)
    \/ CreateInsertPlan(r)
    \/ InsertItem(r)
    \/ CreateRollback(r)
    \/ ReadPlan(r)
    \/ ReadItems(r)
    \/ StartAdd(r)
    \/ CheckOwner(r)
    \/ CheckDup(r)
    \/ getNextOrderIndex(r)
    \/ AddInsert(r)
    \/ StartDelete(r)
    \/ DeletePlan(r)

AccountSpec == Init /\ [][AccountNext]_vars

\* ================================================================ claims
Acting(r) == req'[r] # req[r]
HasPlan(plans, pid) == \E p \in plans : p.id = pid
PlanItems(items, pid) == {i \in items : i.workout_plan_id = pid}
Done(r, op) == req[r].op = op /\ req[r].pc = "done"

\* a created plan's header and items are gone
PlanGone(plans, items, pid) == ~ HasPlan(plans, pid) /\ PlanItems(items, pid) = {}

\* C1: a createWorkoutPlan in which an item insert failed and whose
\* compensating delete succeeded is answered with a failure, and from then on
\* the store holds neither the header of that plan nor an item of it.
C1_RolledBack ==
  \A r \in Slots :
    (Done(r, "create") /\ req[r].failed # {} /\ req[r].rollback = "ok")
      => /\ req[r].status = 500
         /\ PlanGone(workout_plans, workout_plan_exercises, req[r].planId)
C1_GoneStaysGone ==
  \A pid \in 1..MaxPlanId :
    (pid < nextPlanId /\ PlanGone(workout_plans, workout_plan_exercises, pid))
      => PlanGone(workout_plans', workout_plan_exercises', pid)
C1_CreateAllOrNothing == [] C1_RolledBack /\ [][C1_GoneStaysGone]_vars

\* C1 witness: a creation of two items, one inserted and one failed, rolled back
C1_Witness ==
  \E r \in Slots :
    /\ Done(r, "create") /\ req[r].rollback = "ok"
    /\ Len(req[r].body.exercises) = 2 /\ Cardinality(req[r].failed) = 1

\* what the client submitted for entry k of the list: the values of the entry,
\* null for a field it left out, and the position k for a missing order_index
SubmittedItem(x, k) ==
  [exercise_id |-> x.exercise_id, sets |-> x.sets, reps |-> x.reps,
   weight |-> OrNullNumKeepZero(x.weight),
   rest_time |-> OrNullNumKeepZero(x.rest_time),
   notes |-> OrNullStrKeepEmpty(x.notes),
   order_index |-> IF x.order_index = Undef THEN k ELSE x.order_index]
ReturnedItem(f) ==
  [exercise_id |-> f.exercise_id, sets |-> f.sets, reps |-> f.reps,
   weight |-> f.weight, rest_time |-> f.rest_time, notes |-> f.notes,
   order_index |-> f.order_index]

\* C2: a createWorkoutPlan whose header insert and item inserts all succeeded
\* returns exactly one item per submitted entry, with the submitted exercise,
\* sets, reps, weight, rest time and notes, and with the given order_index or,
\* without one, the 1-based position.
C2_ReadBackIsSubmitted ==
  \A r \in Slots :
    (Done(r, "create") /\ req[r].status = 201 /\ req[r].failed = {})
      => LET exs == req[r].body.exercises
         IN /\ Cardinality(req[r].data.exercises) = Len(exs)
            /\ {ReturnedItem(f) : f \in req[r].data.exercises}
                 = {SubmittedItem(exs[k], k) : k \in 1..Len(exs)}

\* a plan is readable by u: it is public or u owns it
Readable(p, u) == p.is_public \/ p.created_by = u

\* C3: for an authenticated actor, getWorkoutPlanById and getAllWorkoutPlans
\* disclose a plan if and only if it is public or the actor owns it.
C3_DisclosedIffReadable ==
  \A r \in Slots :
    (req[r].pc = "done" /\ req[r].user \in Users)
      => /\ (req[r].op = "getById" /\ req[r].status = 200)
              => \A p \in req[r].data.plan : Readable(p, req[r].user)
         /\ (req[r].op = "getAll" /\ req[r].status = 200)
              => \A p \in req[r].data.rows : Readable(p, req[r].user)
         /\ (req[r].op = "getById" /\ req[r].last # "error")
              => \A p \in workout_plans :
                   (p.id = req[r].id /\ Readable(p, req[r].user))
                     => req[r].status = 200 /\ p \in req[r].data.plan
         /\ (req[r].op = "getAll" /\ req[r].status = 200 /\ req[r].query = NoQuery)
              => \A p \in workout_plans :
                   Readable(p, req[r].user) => p \in req[r].data.rows

\* C4: a step of updateWorkoutPlan, deleteWorkoutPlan, addExerciseToWorkoutPlan,
\* updateExerciseInWorkoutPlan or removeExerciseFromWorkoutPlan sent by an
\* actor who does not own the existing plan P changes neither P's header nor
\* an item of P, public or not; the ownership check of every such request
\* reads the store and, when the store answers, ends the request with 403.
C4_Step(r) ==
  \A p \in workout_plans :
    (Acting(r) /\ req[r].op \in Writers /\ req[r].id = p.id
       /\ p.created_by # req[r].user)
      => /\ p \in workout_plans'
         /\ PlanItems(workout_plan_exercises', p.id)
              = PlanItems(workout_plan_exercises, p.id)
         /\ req[r].pc \in {"check_owner", "done"}
         /\ req[r].pc = "check_owner"
              => /\ req'[r].pc = "done"
                 /\ req'[r].status = IF req'[r].last = "error" THEN 500 ELSE 403
C4_NonOwnerWriteForbidden == [][\A r \in Slots : C4_Step(r)]_vars

\* C4 witness: a write on a public plan of another account, answered 403
C4_Witness ==
  \E r \in Slots, p \in workout_plans :
    /\ req[r].op \in Writers /\ req[r].pc = "done" /\ req[r].status = 403
    /\ p.id = req[r].id /\ p.is_public /\ p.created_by # req[r].user

\* C5: the access decision of a request on plan id, taken by the handler's
\* first answered lookup, is not-found exactly when the plan does not exist,
\* forbidden exactly when it exists and the actor lacks the right (a write
\* or create-child needs ownership, a read needs ownership or a public
\* plan), and allow otherwise; the inputs fix the outcome.
C5_Outcome(r) ==
  IF req'[r].pc # "done" THEN "allow"
  ELSE IF req'[r].status = 404 THEN "notfound"
  ELSE IF req'[r].status = 403 THEN "forbidden"
  ELSE "other"
C5_Step(r) ==
  LET exists == HasPlan(workout_plans, req[r].id)
      right == \E p \in workout_plans :
                 /\ p.id = req[r].id
                 /\ IF req[r].op = "getById" THEN Readable(p, req[r].user)
                    ELSE p.created_by = req[r].user
  IN (/\ Acting(r) /\ req'[r].last # "error"
      /\ \/ req[r].op \in Writers /\ req[r].pc = "check_owner"
         \/ req[r].op = "getById" /\ req[r].pc = "read_plan")
       => /\ C5_Outcome(r) \in {"allow", "notfound", "forbidden"}
          /\ C5_Outcome(r) = "notfound" <=> ~ exists
          /\ C5_Outcome(r) = "forbidden" <=> (exists /\ ~ right)
          /\ C5_Outcome(r) = "allow" <=> (exists /\ right)
C5_DecisionTotalAndExact == [][\A r \in Slots : C5_Step(r)]_vars

\* C6: while the plan holds an item for the exercise of an
\* addExerciseToWorkoutPlan request, no step of the request changes the items
\* of the store, and its duplicate check, when the store answers it, ends the
\* request with 400.
C6_Step(r) ==
  (/\ Acting(r) /\ req[r].op = "add"
   /\ \E i \in PlanItems(workout_plan_exercises, req[r].id) :
        i.exercise_id = req[r].item.exercise_id)
    => /\ workout_plan_exercises' = workout_plan_exercises
       /\ (req[r].pc = "check_dup" /\ req'[r].last # "error")
            => req'[r].pc = "done" /\ req'[r].status = 400
C6_DuplicateAddIsConflict == [][\A r \in Slots : C6_Step(r)]_vars

\* C6 witness: the owner's add answered 400, the item of that exercise in place
C6_Witness ==
  \E r \in Slots :
    /\ Done(r, "add") /\ req[r].status = 400
    /\ \E i \in PlanItems(workout_plan_exercises, req[r].id) :
         i.exercise_id = req[r].item.exercise_id

\* C7: a step of removeExerciseFromWorkoutPlan(planId, itemId) removes at most
\* the one row with that id in that plan and changes no other row.
C7_Step(r) ==
  (Acting(r) /\ req[r].op = "remove")
    => /\ workout_plan_exercises' \subseteq workout_plan_exercises
       /\ \A i \in workout_plan_exercises \ workout_plan_exercises' :
            i.id = req[r].itemId /\ i.workout_plan_id = req[r].id
       /\ Cardinality(workout_plan_exercises \ workout_plan_exercises') <= 1
       /\ workout_plans' = workout_plans
C7_RemoveDeletesOnlyThatItem == [][\A r \in Slots : C7_Step(r)]_vars

\* C7 witness: item 1 of the plan removed, item 2 of the plan in place with
\* the order_index it was inserted with
C7_Witness ==
  \E r \in Slots :
    /\ Done(r, "remove") /\ req[r].status = 200 /\ req[r].itemId = 1
    /\ ~ \E i \in workout_plan_exercises : i.id = 1
    /\ \E i \in workout_plan_exercises :
         i.id = 2 /\ i.workout_plan_id = req[r].id /\ i.order_index = 3

HasDuplicateExercise(exs) ==
  \E j, k \in 1..Len(exs) : j # k /\ exs[j].exercise_id = exs[k].exercise_id

\* C8: a createWorkoutPlan whose list names an exercise twice never succeeds:
\* once the header is in, one of the two inserts is rejected, the rollback
\* delete is issued and the answer is 500; after a rollback delete that the
\* store carried out the plan is gone, and getWorkoutPlanById of a plan that
\* is gone answers 404.
C8_DuplicateCreateFails ==
  \A r \in Slots :
    /\ (/\ req[r].op = "create" /\ req[r].user \in Users
        /\ HasDuplicateExercise(req[r].body.exercises))
         => /\ req[r].status \in {0, 500}
            /\ req[r].pc # "read_items"
            /\ (req[r].pc = "done" /\ req[r].planId # 0)
                 => /\ req[r].failed # {}
                    /\ req[r].rollback # "none"
                    /\ req[r].rollback = "ok"
                         => PlanGone(workout_plans, workout_plan_exercises, req[r].planId)
    /\ (/\ Done(r, "getById") /\ req[r].user \in Users
        /\ ~ HasPlan(workout_plans, req[r].id))
         => req[r].status = IF req[r].last = "error" THEN 500 ELSE 404

\* C8 witness: e1 twice, one insert in, the other rejected, the header deleted
C8_Witness ==
  \E r \in Slots :
    /\ Done(r, "create") /\ HasDuplicateExercise(req[r].body.exercises)
    /\ Cardinality(req[r].failed) = 1 /\ req[r].rollback = "ok"
    /\ req[r].status = 500

\* C9: a create or update body whose exercises list is present and empty is
\* answered 400 by the validation, before any gateway call.
C9_EmptyListRejected ==
  \A r \in Slots :
    (/\ req[r].op \in {"create", "update"} /\ req[r].user \in Users
     /\ "exercises" \in req[r].body.has /\ req[r].body.exercises = << >>)
      => req[r].pc = "done" /\ req[r].status = 400 /\ req[r].calls = 0

\* C9 witness: an update whose only key is an empty exercises list
C9_Witness ==
  \E r \in Slots :
    /\ Done(r, "update") /\ req[r].user \in Users
    /\ req[r].body.has = {"exercises"} /\ req[r].body.exercises = << >>
    /\ req[r].status = 400

\* C10: a creation or a replace-on-update in which an item insert failed is
\* answered 500, never with a success.
C10_PartialNeverSuccess ==
  \A r \in Slots :
    (req[r].pc = "done" /\ req[r].op \in {"create", "update"} /\ req[r].failed # {})
      => req[r].status = 500

ExerciseOps == {"createExercise", "updateExercise", "constants"} \cup ExerciseReads

\* C11: a request to an /api/exercises endpoint that carries no valid token
\* is answered 401 and issues no gateway call on the exercise catalog.
C11_ExercisesRequireAuth ==
  \A r \in Slots :
    (req[r].op \in ExerciseOps /\ req[r].user = Anon)
      => req[r].pc = "done" /\ req[r].status = 401 /\ req[r].calls = 0

\* C12: an addExerciseToWorkoutPlan request of an authenticated caller whose
\* body breaks the item rules (exercise_id missing, sets outside 1..50, reps
\* outside 1..1000, weight outside 0..10000, rest_time outside 0..3600) is
\* answered 400 on arrival, and no step of it writes the store.
C12_Step(r) ==
  (/\ Acting(r) /\ req'[r].op = "add" /\ req'[r].user \in Users
   /\ ~ ValidItemSpec(req'[r].item))
    => /\ req'[r].pc = "done" /\ req'[r].status = 400
       /\ workout_plan_exercises' = workout_plan_exercises
C12_AddValidatesBody == [][\A r \in Slots : C12_Step(r)]_vars

\* C13: a request that would violate a uniqueness constraint (the email of
\* another account on registration or profile update, the name of another
\* exercise on create or update, an existing (plan, exercise) pairing on
\* add) leaves the store unchanged and, at the step that meets the
\* duplicate with the gateway answering, is answered 400.
C13_Conflict(r) ==
  \/ /\ req[r].op = "createUser" /\ req[r].pc = "user_check_email"
     /\ \E a \in users : a.email = req[r].email
  \/ /\ req[r].op = "updateUser" /\ req[r].pc = "user_update"
     /\ \E a \in users : a.id = req[r].account
     /\ \E a \in users : a.id # req[r].account /\ a.email = req[r].email
  \/ /\ req[r].op = "createExercise" /\ req[r].pc = "ex_check_name"
     /\ \E e \in exercise_rows : e.name = req[r].body.name
  \/ /\ req[r].op = "updateExercise" /\ req[r].pc = "ex_check_other"
     /\ \E e \in exercise_rows : e.id # req[r].exId /\ e.name = req[r].body.name
  \/ /\ req[r].op = "add" /\ req[r].pc = "check_dup"
     /\ \E i \in PlanItems(workout_plan_exercises, req[r].id) :
          i.exercise_id = req[r].item.exercise_id
C13_Step(r) ==
  (Acting(r) /\ C13_Conflict(r) /\ req'[r].last # "error")
    => /\ req'[r].pc = "done" /\ req'[r].status = 400
       /\ UNCHANGED <<store, otherTables>>
C13_UniquenessIsConflict == [][\A r \in Slots : C13_Step(r)]_vars

\* C14: in every reachable state each item references an existing plan and
\* each plan and each gym log references an existing account; after a
\* deleteWorkoutPlan answered 200 no item of the plan is left, and after a
\* deleteUser answered 200 no plan, no item of such a plan and no gym log of
\* the account is left.
C14_ReferentialIntegrity ==
  /\ \A i \in workout_plan_exercises : HasPlan(workout_plans, i.workout_plan_id)
  /\ \A p \in workout_plans : p.created_by \in UserIdsOf(users)
  /\ \A g \in gym_logs : g.user_id \in UserIdsOf(users)
  /\ \A r \in Slots :
       /\ (Done(r, "delete") /\ req[r].status = 200)
            => PlanItems(workout_plan_exercises, req[r].id) = {}
       /\ (Done(r, "deleteUser") /\ req[r].status = 200)
            => /\ ~ \E p \in workout_plans : p.created_by = req[r].account
               /\ ~ \E g \in gym_logs : g.user_id = req[r].account
               /\ ~ \E a \in users : a.id = req[r].account

\* C14 witness: a deleteUser that took a plan, its item and a gym log along
C14_Witness ==
  \E r \in Slots :
    /\ Done(r, "deleteUser") /\ req[r].status = 200 /\ req[r].cascade = 3
    /\ workout_plans = {} /\ workout_plan_exercises = {} /\ gym_logs = {}

\* C15: when the header insert of createWorkoutPlan fails, that step ends
\* the request with 500 and leaves the store unchanged; the request has
\* issued one gateway call, no item insert and no compensating delete.
C15_Step(r) ==
  (/\ Acting(r) /\ req[r].op = "create" /\ req[r].pc = "insert_plan"
   /\ req'[r].last = "error")
    => /\ req'[r].pc = "done" /\ req'[r].status = 500
       /\ UNCHANGED <<store, otherTables>>
C15_Aborted ==
  \A r \in Slots :
    (Done(r, "create") /\ req[r].user \in Users /\ req[r].status # 400
       /\ req[r].planId = 0)
      => /\ req[r].status = 500 /\ req[r].calls = 1
         /\ req[r].pending = {} /\ req[r].failed = {} /\ req[r].rollback = "none"
C15_HeaderFailureAborts == [] C15_Aborted /\ [][\A r \in Slots : C15_Step(r)]_vars

\* C15 witness: a creation of two items that ended at its failed header insert
C15_Witness ==
  \E r \in Slots :
    /\ Done(r, "create") /\ req[r].planId = 0 /\ req[r].last = "error"
    /\ req[r].status = 500 /\ req[r].calls = 1
    /\ Len(req[r].body.exercises) = 2

\* C16: a createWorkoutPlan in which an item insert failed and the
\* compensating delete failed too is answered 500, has issued the delete
\* once, and the header it leaves in the store has no item.
C16_OrphanHeaderHasNoItems ==
  \A r \in Slots :
    (Done(r, "create") /\ req[r].failed # {} /\ req[r].rollback = "error")
      => /\ req[r].status = 500
         /\ req[r].calls = Len(req[r].body.exercises) + 2
         /\ HasPlan(workout_plans, req[r].planId)
              => PlanItems(workout_plan_exercises, req[r].planId) = {}

\* C17: after an updateWorkoutPlan by the owner that supplies the list L and
\* whose delete and inserts all succeeded, the items of the plan are exactly
\* the entries of L, one item per entry, with the given order_index or the
\* 1-based position: no earlier item is left and no other item exists.
C17_ReplaceLeavesExactlyL ==
  \A r \in Slots :
    (/\ Done(r, "update") /\ req[r].status = 200
     /\ "exercises" \in req[r].body.has
     /\ req[r].deleted = "ok" /\ req[r].failed = {})
      => LET exs == req[r].body.exercises
             now == PlanItems(workout_plan_exercises, req[r].id)
         IN /\ Cardinality(now) = Len(exs)
            /\ {ReturnedItem(i) : i \in now}
                 = {SubmittedItem(exs[k], k) : k \in 1..Len(exs)}

\* C18: a step of updateWorkoutPlan changes no other plan and never the
\* owner; its header update gives each supplied field (name, is_public) the
\* supplied value and leaves each unsupplied field as it was; and without an
\* exercises list no step of the request changes an item.
C18_Step(r) ==
  (Acting(r) /\ req[r].op = "update")
    => /\ \A p \in workout_plans :
            IF p.id # req[r].id THEN p \in workout_plans'
            ELSE \E q \in workout_plans' :
                   /\ q.id = p.id /\ q.created_by = p.created_by
                   /\ IF req[r].pc = "update_plan" /\ req'[r].last = "ok"
                        THEN /\ q.name = IF "name" \in req[r].body.has
                                           THEN req[r].body.name ELSE p.name
                             /\ q.is_public = IF "is_public" \in req[r].body.has
                                                THEN req[r].body.is_public
                                                ELSE p.is_public
                        ELSE q = p
       /\ Cardinality(workout_plans') = Cardinality(workout_plans)
       /\ "exercises" \notin req[r].body.has
            => workout_plan_exercises' = workout_plan_exercises
C18_UpdateChangesWhatIsSupplied == [][\A r \in Slots : C18_Step(r)]_vars

\* C18 witness: an update that supplied the name alone: the plan has the new
\* name, is public as before and has its items
C18_Witness ==
  \E r \in Slots, p \in workout_plans :
    /\ Done(r, "update") /\ req[r].status = 200 /\ req[r].body.has = {"name"}
    /\ p.id = req[r].id /\ p.name = req[r].body.name /\ p.is_public
    /\ PlanItems(workout_plan_exercises, p.id) # {}

\* C19: the gateway calls of one aggregate write are strictly sequenced. In
\* createWorkoutPlan an item insert is issued only when the header insert has
\* answered with the new row, and the compensating delete only when every
\* item insert has answered; in updateWorkoutPlan the delete of the items is
\* issued only as the third call, after the ownership check and the header
\* update, and an item insert only when that delete has answered.
C19_ItemInsert(r) == req[r].pc = "insert_items" /\ req'[r].pending # req[r].pending
C19_Step(r) ==
  Acting(r) =>
    /\ (req[r].op = "create" /\ req[r].pc = "insert_plan" /\ req'[r].pc = "insert_items")
         => /\ req'[r].last = "ok" /\ req'[r].calls = 1
            /\ \E p \in workout_plans' : p.id = req'[r].planId
    /\ (req[r].op = "create" /\ C19_ItemInsert(r))
         => req[r].planId # 0 /\ req[r].calls >= 1
    /\ (req[r].op = "create" /\ req[r].pc # "done" /\ req'[r].rollback # req[r].rollback)
         => /\ req[r].pending = {}
            /\ req[r].calls = 1 + Len(req[r].body.exercises)
    /\ (req[r].op = "update" /\ req[r].pc = "delete_items")
         => req[r].calls = 2 /\ req[r].deleted = "none"
    /\ (req[r].op = "update" /\ req'[r].pc = "delete_items")
         => req[r].pc = "update_plan" /\ req'[r].last = "ok"
    /\ (req[r].op = "update" /\ C19_ItemInsert(r))
         => req[r].deleted # "none" /\ req[r].calls >= 3
C19_CallsAreSequenced == [][\A r \in Slots : C19_Step(r)]_vars

\* C19 witness: a create of two items that issued the header insert, both
\* item inserts and then the compensating delete
C19_Witness ==
  \E r \in Slots :
    /\ Done(r, "create") /\ req[r].rollback # "none"
    /\ Len(req[r].body.exercises) >= 2 /\ req[r].calls = 2 + Len(req[r].body.exercises)

\* C20: two updateWorkoutPlan calls of the owner on the same plan, with item
\* lists A and B, are not serialized. Whenever both have completed with their
\* deletes answered, every item of the plan is an entry of A or of B (the
\* items from before are gone); the witness is the interleaving after which
\* the plan has entries of both and equals neither list.
C20_RowsOf(exs, pid) ==
  {ItemRow(0, pid, exs[k], OrderIndexOr(exs[k].order_index, k)) : k \in 1..Len(exs)}
C20_FinalRows(pid) ==
  {[i EXCEPT !.id = 0] : i \in PlanItems(workout_plan_exercises, pid)}
C20_BothReplaced(a, b) ==
  /\ a # b
  /\ \A r \in {a, b} :
       /\ Done(r, "update") /\ req[r].status = 200
       /\ "exercises" \in req[r].body.has /\ req[r].deleted = "ok"
  /\ req[a].id = req[b].id
C20_FinalItemsComeFromAOrB ==
  \A a, b \in Slots :
    C20_BothReplaced(a, b)
      => C20_FinalRows(req[a].id) \subseteq
           (C20_RowsOf(req[a].body.exercises, req[a].id)
              \cup C20_RowsOf(req[b].body.exercises, req[b].id))

\* C20 witness: both calls completed, every statement of both answered
\* without error, and the plan holds a mix: entries of A and entries of B,
\* and neither exactly A nor exactly B
C20_Witness ==
  \E a, b \in Slots :
    /\ C20_BothReplaced(a, b)
    /\ req[a].failed = {} /\ req[b].failed = {}
    /\ LET A == C20_RowsOf(req[a].body.exercises, req[a].id)
           B == C20_RowsOf(req[b].body.exercises, req[b].id)
           final == C20_FinalRows(req[a].id)
       IN /\ final # A /\ final # B
          /\ final \cap A # {} /\ final \cap B # {}

\* C21: a replace-on-update has no rollback. When an update whose delete of
\* the existing items answered has finished with some item insert failed,
\* the header carries the supplied values and the plan holds exactly the
\* entries whose insert succeeded: a strict subset of the list, possibly
\* none, and no item from before the update.
C21_Kept(r) ==
  {ItemRow(0, req[r].id, req[r].body.exercises[k],
           OrderIndexOr(req[r].body.exercises[k].order_index, k)) :
     k \in (1..Len(req[r].body.exercises)) \ req[r].failed}
C21_PartialReplace(r) ==
  /\ Done(r, "update") /\ "exercises" \in req[r].body.has
  /\ req[r].deleted = "ok" /\ req[r].failed # {}
C21_NoRollbackOfReplace ==
  \A r \in Slots :
    C21_PartialReplace(r)
      => /\ {[i EXCEPT !.id = 0] : i \in PlanItems(workout_plan_exercises, req[r].id)}
              = C21_Kept(r)
         /\ Cardinality(PlanItems(workout_plan_exercises, req[r].id))
              < Len(req[r].body.exercises)
         /\ \E p \in workout_plans :
              /\ p.id = req[r].id
              /\ ("name" \in req[r].body.has => p.name = req[r].body.name)
              /\ ("is_public" \in req[r].body.has => p.is_public = req[r].body.is_public)

\* C21 witness: an update with a new name and a list, every insert of which
\* failed: the plan has the new name and no item
C21_Witness ==
  \E r \in Slots :
    /\ C21_PartialReplace(r) /\ "name" \in req[r].body.has
    /\ PlanItems(workout_plan_exercises, req[r].id) = {}
    /\ \E p \in workout_plans : p.id = req[r].id /\ p.name = req[r].body.name

\* C22: in every plan operation one failed gateway call aborts the
\* operation. A step of a request whose latest call answered with an error
\* writes nothing to the store (the compensating delete of createWorkoutPlan
\* and the sibling inserts issued together with a failed insert apart), and a
\* request that ends after an error of one of its calls ends with a failure.
C22_PlanOps == {"create", "update", "delete", "add", "updateItem", "remove"}
C22_Step(r) ==
  (Acting(r) /\ req[r].op \in C22_PlanOps)
    => /\ (req[r].pc # "done" /\ req[r].last = "error" /\ req[r].failed = {})
            => UNCHANGED store
       /\ (req[r].pc # "done" /\ req'[r].pc = "done"
             /\ (req'[r].last = "error" \/ req'[r].failed # {}
                   \/ req'[r].deleted = "error"))
            => req'[r].status >= 400
C22_FailedCallAborts == [][\A r \in Slots : C22_Step(r)]_vars

\* C23: the insert of addExerciseToWorkoutPlan stores the order index of the
\* body when it gives one; otherwise, the lookup of the next order index
\* having answered, it stores one more than the largest order index of the
\* plan's items, and 1 exactly when the plan has no items.
C23_Step(r) ==
  (Acting(r) /\ req[r].op = "add" /\ req[r].pc = "insert_item" /\ req'[r].last = "ok")
    => LET before == PlanItems(workout_plan_exercises, req[r].id)
           added == workout_plan_exercises' \ workout_plan_exercises
       IN /\ Cardinality(added) = 1
          /\ \A n \in added :
               IF ~ FalsyNum(req[r].item.order_index)
                 THEN n.order_index = req[r].item.order_index
               ELSE req[r].last = "ok"
                      => /\ \A i \in before : i.order_index < n.order_index
                         /\ before # {} => \E i \in before : n.order_index = i.order_index + 1
                         /\ (n.order_index = 1) <=> (before = {})
C24_Num(supplied, old) == IF supplied = Undef THEN old ELSE supplied
C24_Step(r) ==
  (Acting(r) /\ req[r].op = "updateItem" /\ req[r].pc = "update_item")
    => LET x == req[r].item
           isTarget(i) == i.id = req[r].itemId /\ i.workout_plan_id = req[r].id
           targets == {i \in workout_plan_exercises : isTarget(i)}
       IN /\ workout_plans' = workout_plans
          /\ \A i \in workout_plan_exercises : ~ isTarget(i) => i \in workout_plan_exercises'
          /\ Cardinality(workout_plan_exercises') = Cardinality(workout_plan_exercises)
          /\ req'[r].last # "ok" => workout_plan_exercises' = workout_plan_exercises
          /\ (targets = {} /\ req'[r].last # "error")
               => req'[r].status = 404 /\ workout_plan_exercises' = workout_plan_exercises
          /\ req'[r].last = "ok"
               => \A i \in targets : \E n \in workout_plan_exercises' :
                    /\ n.id = i.id /\ n.workout_plan_id = i.workout_plan_id
                    /\ n.exercise_id = i.exercise_id
                    /\ n.sets = C24_Num(x.sets, i.sets)
                    /\ n.reps = C24_Num(x.reps, i.reps)
                    /\ n.weight = C24_Num(x.weight, i.weight)
                    /\ n.rest_time = C24_Num(x.rest_time, i.rest_time)
                    /\ n.notes = IF x.notes = SUndef THEN i.notes ELSE x.notes
                    /\ n.order_index = C24_Num(x.order_index, i.order_index)
C24_ItemUpdateChangesWhatIsSupplied == [][\A r \in Slots : C24_Step(r)]_vars

\* C24 witness: an item update that supplied sets 6, weight 0 and notes ''
\* and nothing else was answered 200 with those values and the item's reps
C24_Witness ==
  \E r \in Slots :
    /\ Done(r, "updateItem") /\ req[r].status = 200
    /\ req[r].item.weight = 0 /\ req[r].item.reps = Undef
    /\ \E i \in workout_plan_exercises :
         /\ i.id = req[r].itemId /\ i.workout_plan_id = req[r].id
         /\ i.sets = 6 /\ i.weight = 0 /\ i.notes = "" /\ i.reps \in {8, 10}

\* C25: in every reachable state, whatever the interleaving of the update,
\* add, update-item and remove operations, a plan has at most one item for
\* an exercise.
C25_OneItemPerPlanAndExercise ==
  \A i, j \in workout_plan_exercises :
    (i.workout_plan_id = j.workout_plan_id /\ i.exercise_id = j.exercise_id) => i = j

\* C25 witness: an update whose list names the same exercise twice has
\* finished, one of its inserts was rejected and the plan has one item
C25_Witness ==
  \E r \in Slots :
    /\ Done(r, "update") /\ req[r].deleted = "ok"
    /\ Len(req[r].body.exercises) = 2
    /\ req[r].body.exercises[1].exercise_id = req[r].body.exercises[2].exercise_id
    /\ Cardinality(req[r].failed) = 1
    /\ Cardinality(PlanItems(workout_plan_exercises, req[r].id)) = 1

\* C26: accounts see and change only their own gym logs. A createGymLog of
\* an authenticated account stores no log with the user_id of another
\* account, a deleteGymLog removes no log of another account, and a
\* getGymLogById returns no log of another account.
C26_Step(r) ==
  (Acting(r) /\ req[r].user \in Users)
    => /\ req[r].op = "createGymLog"
            => \A g \in gym_logs' \ gym_logs : g.user_id = req[r].user
       /\ req[r].op = "deleteGymLog"
            => \A g \in gym_logs \ gym_logs' : g.user_id = req[r].user
       /\ req[r].op = "getGymLog"
            => \A g \in req'[r].data.rows : g.user_id = req[r].user
C26_OwnGymLogsOnly == [][\A r \in Slots : C26_Step(r)]_vars

\* C27: a list endpoint called with page p >= 1 and limit L >= 1 asks the
\* store for the positions (p-1)*L through p*L-1 of the ordered result, so
\* it returns at most L rows, and it reports totalPages = ceil(total / L).
C27_PageWindow ==
  \A r \in Slots :
    (/\ Done(r, "getAll") /\ req[r].status = 200
     /\ req[r].paging.page # Undef /\ req[r].paging.limit # Undef)
      => LET p == req[r].paging.page
             L == req[r].paging.limit
         IN /\ req[r].paging.from = (p - 1) * L
            /\ req[r].paging.to = p * L - 1
            /\ Cardinality(req[r].data.rows) <= L
            /\ req[r].paging.totalPages * L >= req[r].paging.count
            /\ (req[r].paging.totalPages - 1) * L < req[r].paging.count
                 \/ req[r].paging.count = 0

\* C28: createWorkoutPlan is all-or-nothing for its caller. When it has
\* answered 201 the header and every submitted item are in the store; when
\* it has answered with a failure, whatever the reason, and no compensating
\* delete failed, neither the header nor an item written by the request is
\* in the store.
C28_CreateAllOrNothingAnyFailure ==
  \A r \in Slots :
    (Done(r, "create") /\ req[r].user \in Users)
      => /\ req[r].status = 201
              => /\ \E p \in workout_plans : p.id = req[r].planId
                 /\ Cardinality(PlanItems(workout_plan_exercises, req[r].planId))
                      = Len(req[r].body.exercises)
         /\ (req[r].status >= 400 /\ req[r].rollback # "error")
              => /\ ~ \E p \in workout_plans : p.id = req[r].planId
                 /\ PlanItems(workout_plan_exercises, req[r].planId) = {}

\* C29: when two concurrent addExerciseToWorkoutPlan calls of the owner for
\* the same exercise on the same plan have both been answered, the plan has
\* at most one item for the exercise, exactly one if a call was answered
\* with success, and at most one call was answered with success, the other
\* with a failure.
C29_BothAnswered(a, b) ==
  /\ a # b /\ Done(a, "add") /\ Done(b, "add")
  /\ req[a].id = req[b].id /\ req[a].item.exercise_id = req[b].item.exercise_id
  /\ \E p \in workout_plans :
       p.id = req[a].id /\ p.created_by = req[a].user /\ p.created_by = req[b].user
C29_ForExercise(r) ==
  {i \in workout_plan_exercises :
     i.workout_plan_id = req[r].id /\ i.exercise_id = req[r].item.exercise_id}
C29_ConcurrentAddsOneWins ==
  \A a, b \in Slots :
    C29_BothAnswered(a, b)
      => /\ Cardinality(C29_ForExercise(a)) <= 1
         /\ ~ (req[a].status = 201 /\ req[b].status = 201)
         /\ req[a].status = 201
              => Cardinality(C29_ForExercise(a)) = 1 /\ req[b].status >= 400

\* C29 witness: both calls passed the duplicate check before either insert;
\* one insert was answered 201, the other was rejected and answered 500, and
\* the plan has one item for the exercise
C29_Witness ==
  \E a, b \in Slots :
    /\ C29_BothAnswered(a, b)
    /\ req[a].status = 201 /\ req[b].status = 500 /\ req[b].calls >= 3
    /\ Cardinality(C29_ForExercise(a)) = 1

\* C30: every answer of getWorkoutPlanStats reports public_plans <=
\* total_plans and private_plans = total_plans - public_plans >= 0, whatever
\* creations, deletions and updates of plans run beside it.
C30_StatsCountsConsistent ==
  \A r \in Slots :
    (Done(r, "stats") /\ req[r].status = 200)
      => /\ req[r].stats.public_plans <= req[r].stats.total_plans
         /\ req[r].stats.private_plans
              = req[r].stats.total_plans - req[r].stats.public_plans
         /\ req[r].stats.private_plans >= 0

====
